---------------------------- MODULE Spec2Model ----------------------------
(***************************************************************************)
(* PraxChat end-to-end encryption core: X3DH-style session establishment,  *)
(* the symmetric ratchet, the message cipher, the IndexedDB key store and   *)
(* the send / receive paths of the useChat hook.                            *)
(*                                                                         *)
(* Cryptography is modelled symbolically.  A byte string (and its base64    *)
(* text) is a sequence of naturals.  The BLAKE2b digest is a collision-free *)
(* function of its input, the X25519 scalar multiplication is the product   *)
(* of distinct prime scalars (so DH(a, b.G) = DH(b, a.G) and nothing else   *)
(* agrees), and a secretbox opens exactly under the key and nonce that      *)
(* sealed it.                                                               *)
(***************************************************************************)
EXTENDS Integers, Sequences, FiniteSets, TLC

VARIABLES
    db,          \* per user: the IndexedDB object store 'keys' (id -> record)
    devices,     \* server table 'devices'
    clock,       \* server time, source of devices.created_at
    messages,    \* server table 'messages' (the transport)
    rtPending,   \* per user: INSERT events whose realtime handler has not run
    msgList,     \* per user: React state `messages` of useChat
    call,        \* per sendMessage invocation: position and local variables
    nextKey,     \* random draws (keys, nonces) made so far
    usedBundle,  \* history: ephemeral key -> peer public keys its handshake used
    recvLog,     \* history: the last altered row delivered and what it led to
    rRoot,       \* ratchet harness: the root secret of the chain under test
    rState,      \* ratchet harness: ChainState held by the sequential sender
    rOut,        \* ratchet harness: result of the last ratchetForSend
    rCalls,      \* ratchet harness: number of ratchetForSend calls so far
    rSeek,       \* ratchet harness: the last pair of deriveKeyAtIndex calls
    cOut,        \* cipher harness: the last encryptMessage / decryptMessage pair
    uCall,       \* unlock harness: the last VaultCrypto.unlockVault call
    vSession,    \* sessionStorage slot SESSION_KEY of the recipient's tab
    kop,         \* the key-store or vault operation in flight, or the last one
    vhist,       \* history of the vault: what was granted, stored and tried
    reg,         \* RegisterDevice: component state and the register() runs
    view,        \* useChat: the active conversation, its list, work in flight
    unlockUi,    \* VaultUnlock: the stored attempt count and the handleUnlock call
    peerUi,      \* useCall: the effect's closures, the peers made, the retry timer
    callUi       \* useCall: call state, refs, connections, timers, the operation

vars == <<db, devices, clock, messages, rtPending, msgList, call, nextKey,
          usedBundle, recvLog, rRoot, rState, rOut, rCalls, rSeek, cOut, uCall,
          vSession, kop, vhist, reg, view, unlockUi, peerUi, callUi>>

chatVars == <<db, devices, clock, messages, rtPending, msgList, call, nextKey,
              usedBundle, recvLog>>

ratchetVars == <<rRoot, rState, rOut, rCalls, rSeek, cOut>>

vaultVars == <<uCall, vSession, kop, vhist, reg>>

uiVars == <<view, unlockUi, peerUi, callUi>>

---------------------------------------------------------------------------
(* Bounds *)

\* sendMessage invocations in one behaviour
MaxCalls == 3
\* conversations of the user, rows the peers insert into them, selections
\* of a conversation and fetchMessages runs in flight at a time
MaxConversations == 2
MaxViewRows == 2
MaxSelects == 3
MaxFetches == 2
\* device registration runs of the peer in one behaviour
MaxRegs == 2
\* size of the published pre-key pool (PREKEY_COUNT is 10 in the source)
PreKeyPool == 2
\* sendMessage invocations in a behaviour with overlapping calls or with an
\* altered row
MaxCallsWide == 2
\* highest message index exercised by the ratchet harness
MaxRatchet == 4
\* scalars each Diffie-Hellman term of a harness root secret ranges over
MaxRootScalar == 3
\* plaintexts and nonces the cipher harness ranges over
MaxCipherTexts == 3
MaxCipherNonces == 3
\* passwords a user may type
MaxPasswords == 3
\* salts the vault may draw
MaxSalts == 2
\* key-store and vault operations begun in one behaviour of the vault machine
MaxVaultOps == 5
\* register() runs in flight at once, runs started and mounts of
\* RegisterDevice in one behaviour of the registration machine
MaxOverlap == 2
MaxRuns == 4
MaxMounts == 2
MaxUnlockTries == 7
MaxHookMounts == 2
MaxPeers == 6
MaxConns == 3
MaxStarts == 2

\* VaultUnlock.tsx: const MAX_ATTEMPTS = 5
MAX_ATTEMPTS == 5

---------------------------------------------------------------------------
(* Primitive layer *)

CHAIN_KEY_CONSTANT == 1
MESSAGE_KEY_CONSTANT == 2

Primes == <<2, 3, 5, 7, 11, 13, 17, 19, 23, 29, 31, 37, 41, 43, 47, 53, 59,
            61, 67, 71, 73, 79, 83, 89, 97, 101, 103, 107, 109, 113>>

\* the private scalar drawn by the n-th key generation
Scalar(n) == Primes[n]

\* sodium.crypto_generichash(32, input): collision-free digest
GenericHash32(input) == <<Len(input)>> \o input

\* Crypto.generatePreKey: X25519 pair; the public key is the point k.G
GeneratePreKey(n) ==
    [publicKey |-> <<Scalar(n)>>, privateKey |-> Scalar(n), keyType |-> "x25519"]

\* Crypto.generateIdentityKeyPair: Ed25519 pair; the public key is the
\* Edwards encoding (second component 0) of the point k.G
GenerateIdentityKeyPair(n) ==
    [publicKey |-> <<Scalar(n), 0>>, privateKey |-> <<Scalar(n), 0, 0>>,
     keyType |-> "ed25519"]

ConvertEd25519SecretKeyToCurve25519(edSk) == edSk[1]

ConvertEd25519PublicKeyToCurve25519(edPk) == <<edPk[1]>>

\* Crypto.computeSharedSecret: crypto_scalarmult(myPrivate, theirPublic)
ComputeSharedSecret(myPrivateKey, theirPublicKey) ==
    <<myPrivateKey * theirPublicKey[1]>>

\* Crypto.genericHash(input)
GenericHash(input) == GenericHash32(input)

---------------------------------------------------------------------------
(* Ratchet *)

InitializeChain(sharedSecret) == [chainKey |-> sharedSecret, counter |-> 0]

AdvanceChainKey(chainKey) == GenericHash32(chainKey \o <<CHAIN_KEY_CONSTANT>>)

DeriveMessageKey(chainKey) == GenericHash32(chainKey \o <<MESSAGE_KEY_CONSTANT>>)

RatchetForSend(state) ==
    [newState |-> [chainKey |-> AdvanceChainKey(state.chainKey),
                   counter |-> state.counter + 1],
     messageKey |-> DeriveMessageKey(state.chainKey),
     messageIndex |-> state.counter]

\* the loop `for (let i = 0; i < messageIndex; i++)` from position i
RECURSIVE AdvanceLoop(_, _, _)
AdvanceLoop(chainKey, i, messageIndex) ==
    IF i < messageIndex
    THEN AdvanceLoop(AdvanceChainKey(chainKey), i + 1, messageIndex)
    ELSE chainKey

\* variant: the loop never runs
DeriveKeyAtIndexNoLoop(sessionKey, messageIndex) == DeriveMessageKey(sessionKey)

\* variant: the loop runs once more (`i <= messageIndex`)
DeriveKeyAtIndexOneFurther(sessionKey, messageIndex) ==
    DeriveMessageKey(AdvanceLoop(sessionKey, 0, messageIndex + 1))

DeriveKeyAtIndex(sessionKey, messageIndex) ==
    DeriveMessageKey(AdvanceLoop(sessionKey, 0, messageIndex))

---------------------------------------------------------------------------
(* Cipher *)

\* crypto_secretbox_easy(message, nonce, key): the sealed box
SecretboxEasy(message, nonce, key) == [key |-> key, nonce |-> nonce, msg |-> message]

\* crypto_secretbox_open_easy succeeds exactly under the sealing key and nonce
SecretboxOpens(box, nonce, key) == box.key = key /\ box.nonce = nonce

\* Cipher.encryptMessage: nonce || ciphertext under a drawn nonce
EncryptMessage(message, key, nonce) ==
    [nonce |-> nonce, box |-> SecretboxEasy(message, nonce, key)]

\* variant: the split is off, the text returned is cut from the nonce
DecryptMessageNonceAsText(encryptedMessage, key) ==
    IF SecretboxOpens(encryptedMessage.box, encryptedMessage.nonce, key)
    THEN [ok |-> TRUE, text |-> encryptedMessage.nonce + MaxCipherTexts]
    ELSE [ok |-> FALSE, text |-> 0]

\* Cipher.decryptMessage: [ok, text]; ok = FALSE is libsodium's
\* "wrong secret key for the given ciphertext" exception
DecryptMessage(encryptedMessage, key) ==
    IF SecretboxOpens(encryptedMessage.box, encryptedMessage.nonce, key)
    THEN [ok |-> TRUE, text |-> encryptedMessage.box.msg]
    ELSE [ok |-> FALSE, text |-> 0]

---------------------------------------------------------------------------
(* Key store: one flat object store per user, records addressed by id *)

Users == {"A", "B"}

\* JavaScript undefined for object-valued results
Undefined == [undefined |-> TRUE]

\* undefined / empty string for string-valued results (both falsy)
NoString == <<>>

EmptyStore == [id \in {} |-> Undefined]

\* store.put(record): insert or overwrite by id
Put(t, id, rec) == [x \in (DOMAIN t) \cup {id} |-> IF x = id THEN rec ELSE t[x]]

IdentityId == <<"identity", <<>>>>
PreKeyId(i) == <<"prekey", <<i>>>>
SessionByKeyId(ephemeralKey) == <<"session_by_key", ephemeralKey>>
ActiveSessionId(userId) == <<"active_session", userId>>
SessionCounterId(ephemeralKey) == <<"session_counter", ephemeralKey>>

\* variant: the vault metadata survives the clear
ClearedStoreKeepsVault(t) == [id \in (DOMAIN t) \cap {<<"vault_meta", <<>>>>} |-> t[id]]

\* KeyStore.clearAll
ClearedStore(t) == EmptyStore

\* KeyStore.storeKey, no-vault branch
StoreKey(t, id, key) ==
    Put(t, id, [publicKey |-> key.publicKey, privateKey |-> key.privateKey,
                keyType |-> key.keyType, encrypted |-> FALSE])

\* KeyStore.getKey
GetKey(t, id) ==
    IF id \in DOMAIN t
    THEN [publicKey |-> t[id].publicKey, privateKey |-> t[id].privateKey,
          keyType |-> t[id].keyType]
    ELSE Undefined

StoreIdentityKey(t, keyPair) == StoreKey(t, IdentityId, keyPair)
GetIdentityKey(t) == GetKey(t, IdentityId)
StorePreKey(t, i, keyPair) == StoreKey(t, PreKeyId(i), keyPair)
GetPreKey(t, i) == GetKey(t, PreKeyId(i))

\* KeyStore.storeSessionByHeader, no-vault branch
StoreSessionByHeader(t, ephemeralKey, sessionKey) ==
    Put(t, SessionByKeyId(ephemeralKey), [key |-> sessionKey, encrypted |-> FALSE])

\* KeyStore.getSessionByHeader
GetSessionByHeader(t, ephemeralKey) ==
    IF SessionByKeyId(ephemeralKey) \in DOMAIN t
    THEN t[SessionByKeyId(ephemeralKey)].key
    ELSE NoString

\* KeyStore.storeActiveSession, no-vault branch
StoreActiveSession(t, userId, sessionKey, header, peerIdentityKey, deviceCreatedAt) ==
    Put(t, ActiveSessionId(userId),
        [key |-> sessionKey, header |-> header, peerIdentityKey |-> peerIdentityKey,
         deviceCreatedAt |-> deviceCreatedAt, encrypted |-> FALSE])

\* KeyStore.getActiveSession
GetActiveSession(t, userId) ==
    IF ActiveSessionId(userId) \in DOMAIN t
    THEN [key |-> t[ActiveSessionId(userId)].key,
          header |-> t[ActiveSessionId(userId)].header,
          peerIdentityKey |-> t[ActiveSessionId(userId)].peerIdentityKey,
          deviceCreatedAt |-> t[ActiveSessionId(userId)].deviceCreatedAt]
    ELSE Undefined

\* KeyStore.storeSessionCounter
StoreSessionCounter(t, ephemeralKey, counter) ==
    Put(t, SessionCounterId(ephemeralKey), [counter |-> counter])

\* KeyStore.getSessionCounter: 0 when no record exists
GetSessionCounter(t, ephemeralKey) ==
    IF SessionCounterId(ephemeralKey) \in DOMAIN t
    THEN t[SessionCounterId(ephemeralKey)].counter
    ELSE 0

---------------------------------------------------------------------------
(* Vault: PBKDF2 key derivation and AES-GCM under the derived key.  A      *)
(* throwing function returns [threw, ...] with threw = "none" when it       *)
(* returned normally.                                                       *)

VERIFIER_PLAINTEXT == "PRAXCHAT_VAULT_VERIFIED_2025"

\* a string that is not base64 (atob throws InvalidCharacterError)
Malformed == [malformed |-> TRUE]

\* deriveKey: PBKDF2 is a collision-free function of password and salt
DeriveKey(password, salt) == <<"kek", password, salt>>

\* exportKey / importKey: the raw key bytes as base64 text and back
ExportKey(key) == <<"raw", key[2], key[3]>>

ImportKey(keyBase64) == <<"kek", keyBase64[2], keyBase64[3]>>

\* encrypt: nonce || AES-GCM ciphertext under a drawn nonce
Encrypt(plaintext, key, nonce) ==
    [nonce |-> nonce, sealed |-> [key |-> key, nonce |-> nonce, text |-> plaintext]]

\* decrypt: atob, split, AES-GCM open (OperationError unless sealed under
\* this key and nonce)
Decrypt(encrypted, key) ==
    IF encrypted = Malformed
    THEN [threw |-> "InvalidCharacterError", text |-> NoString]
    ELSE IF encrypted.sealed.key = key /\ encrypted.sealed.nonce = encrypted.nonce
    THEN [threw |-> "none", text |-> encrypted.sealed.text]
    ELSE [threw |-> "OperationError", text |-> NoString]

\* the volatile slot sessionStorage[SESSION_KEY]; NoSessionKey is null
NoSessionKey == NoString

\* VaultCrypto.initializeVault: the slot afterwards and the returned metadata
InitializeVaultCrypto(password, salt, nonce) ==
    [session |-> ExportKey(DeriveKey(password, salt)),
     salt |-> salt,
     verifier |-> Encrypt(VERIFIER_PLAINTEXT, DeriveKey(password, salt), nonce)]

\* VaultCrypto.unlockVault, the try block
UnlockAttempt(session, password, saltBase64, verifier) ==
    LET key == DeriveKey(password, saltBase64)
        decrypted == Decrypt(verifier, key)
    IN  IF saltBase64 = Malformed
        THEN [returned |-> FALSE, threw |-> "InvalidCharacterError", session |-> session]
        ELSE IF decrypted.threw # "none"
        THEN [returned |-> FALSE, threw |-> decrypted.threw, session |-> session]
        ELSE IF decrypted.text # VERIFIER_PLAINTEXT
        THEN [returned |-> FALSE, threw |-> "none", session |-> session]
        ELSE [returned |-> TRUE, threw |-> "none", session |-> ExportKey(key)]

\* variant: the derived key is cached before the verifier is opened
UnlockVaultCryptoKeepsDerived(session, password, saltBase64, verifier) ==
    LET attempt == UnlockAttempt(session, password, saltBase64, verifier)
    IN  IF saltBase64 = Malformed
        THEN [returned |-> FALSE, threw |-> "none", session |-> session]
        ELSE [returned |-> attempt.returned, threw |-> "none",
              session |-> ExportKey(DeriveKey(password, saltBase64))]

\* variant: no catch around the attempt
UnlockVaultCryptoUncaught(session, password, saltBase64, verifier) ==
    UnlockAttempt(session, password, saltBase64, verifier)

\* VaultCrypto.unlockVault: try { ... } catch { return false }
UnlockVaultCrypto(session, password, saltBase64, verifier) ==
    LET attempt == UnlockAttempt(session, password, saltBase64, verifier)
    IN  IF attempt.threw # "none"
        THEN [returned |-> FALSE, threw |-> "none", session |-> session]
        ELSE attempt

\* VaultCrypto.isUnlocked
IsUnlocked(session) == session # NoSessionKey

\* variant: the slot keeps its content
LockVaultCryptoKeepsKey(session) == session

\* VaultCrypto.lockVault
LockVaultCrypto(session) == NoSessionKey

\* VaultCrypto.encryptValue
EncryptValue(session, value, nonce) ==
    IF session = NoSessionKey
    THEN [threw |-> "Vault is locked", data |-> NoString]
    ELSE [threw |-> "none", data |-> Encrypt(value, ImportKey(session), nonce)]

\* variant: the cached key is used as it is held in the slot
DecryptValueRawKey(session, encrypted) ==
    IF session = NoSessionKey
    THEN [threw |-> "Vault is locked", data |-> NoString]
    ELSE [threw |-> Decrypt(encrypted, session).threw,
          data |-> Decrypt(encrypted, session).text]

\* VaultCrypto.decryptValue
DecryptValue(session, encrypted) ==
    IF session = NoSessionKey
    THEN [threw |-> "Vault is locked", data |-> NoString]
    ELSE [threw |-> Decrypt(encrypted, ImportKey(session)).threw,
          data |-> Decrypt(encrypted, ImportKey(session)).text]

---------------------------------------------------------------------------
(* Key store with the vault: the vault metadata, the vault branch of the    *)
(* store operations and the read operations on a fetched record             *)

VaultMetaId == <<"vault_meta", <<>>>>
SessionId(userId) == <<"session", userId>>

\* KeyStore.storeVaultMeta
StoreVaultMeta(t, meta) ==
    Put(t, VaultMetaId, [salt |-> meta.salt, verifier |-> meta.verifier])

\* KeyStore.getVaultMeta
GetVaultMeta(t) ==
    IF VaultMetaId \in DOMAIN t
    THEN [salt |-> t[VaultMetaId].salt, verifier |-> t[VaultMetaId].verifier]
    ELSE Undefined

\* KeyStore.hasVault
HasVault(t) == GetVaultMeta(t) # Undefined

\* KeyStore.storeSession, no-vault branch
StoreSession(t, userId, sessionKey, header) ==
    Put(t, SessionId(userId), [key |-> sessionKey, header |-> header, encrypted |-> FALSE])

\* the four store operations after `await this.openDB()`, no-vault branch
PutPlain(t, kind, args) ==
    CASE kind = "storeKey" -> StoreKey(t, args.id, args.key)
      [] kind = "storeSession" -> StoreSession(t, args.userId, args.sessionKey, args.header)
      [] kind = "storeSessionByHeader" ->
             StoreSessionByHeader(t, args.ephemeralKey, args.sessionKey)
      [] kind = "storeActiveSession" ->
             StoreActiveSession(t, args.userId, args.sessionKey, args.header,
                                args.peerIdentityKey, args.deviceCreatedAt)

\* the same, vault branch: the secret goes through VaultCrypto.encryptValue
PutEncrypted(t, kind, args, session, nonce) ==
    CASE kind = "storeKey" ->
             Put(t, args.id,
                 [publicKey |-> args.key.publicKey,
                  privateKey |-> EncryptValue(session, args.key.privateKey, nonce).data,
                  keyType |-> args.key.keyType, encrypted |-> TRUE])
      [] kind = "storeSession" ->
             Put(t, SessionId(args.userId),
                 [key |-> EncryptValue(session, args.sessionKey, nonce).data,
                  header |-> args.header, encrypted |-> TRUE])
      [] kind = "storeSessionByHeader" ->
             Put(t, SessionByKeyId(args.ephemeralKey),
                 [key |-> EncryptValue(session, args.sessionKey, nonce).data,
                  encrypted |-> TRUE])
      [] kind = "storeActiveSession" ->
             Put(t, ActiveSessionId(args.userId),
                 [key |-> EncryptValue(session, args.sessionKey, nonce).data,
                  header |-> args.header, peerIdentityKey |-> args.peerIdentityKey,
                  deviceCreatedAt |-> args.deviceCreatedAt, encrypted |-> TRUE])

\* the first check of a store operation: `hasVault && !VaultCrypto.isUnlocked()`
StoreRefused(hasVault, session) == hasVault /\ ~IsUnlocked(session)

StoreLockedError(kind) ==
    IF kind = "storeKey" THEN "Vault is locked - cannot store keys"
    ELSE "Vault is locked - cannot store session"

\* a store operation after `await this.openDB()`: the second check and the put
StoreWrite(t, kind, args, hasVault, session, nonce) ==
    IF hasVault /\ IsUnlocked(session)
    THEN PutEncrypted(t, kind, args, session, nonce)
    ELSE PutPlain(t, kind, args)

\* the record id a store or read operation addresses
OperationId(kind, args) ==
    CASE kind \in {"storeKey", "getKey"} -> args.id
      [] kind \in {"storeSession", "getSession"} -> SessionId(args.userId)
      [] kind \in {"storeSessionByHeader", "getSessionByHeader"} ->
             SessionByKeyId(args.ephemeralKey)
      [] kind \in {"storeActiveSession", "getActiveSession"} ->
             ActiveSessionId(args.userId)

\* store.get(id): request.result
RecordOf(t, id) == IF id \in DOMAIN t THEN t[id] ELSE Undefined

ReadLockedError(kind) ==
    IF kind = "getKey" THEN "Vault is locked - cannot read keys"
    ELSE "Vault is locked - cannot read session"

\* the secret field of a fetched record
SecretOf(kind, result) == IF kind = "getKey" THEN result.privateKey ELSE result.key

\* the object a read operation returns, given the secret to put in it
ReturnedObject(kind, result, secret) ==
    CASE kind = "getKey" ->
             [publicKey |-> result.publicKey, privateKey |-> secret,
              keyType |-> result.keyType]
      [] kind = "getSession" -> [key |-> secret, header |-> result.header]
      [] kind = "getSessionByHeader" -> [key |-> secret]
      [] kind = "getActiveSession" ->
             [key |-> secret, header |-> result.header,
              peerIdentityKey |-> result.peerIdentityKey,
              deviceCreatedAt |-> result.deviceCreatedAt]

\* variant: a locked vault yields the record as stored
ReadRecordAsStored(kind, result, session) ==
    IF result = Undefined THEN [threw |-> "none", value |-> Undefined]
    ELSE [threw |-> "none",
          value |-> ReturnedObject(kind, result, SecretOf(kind, result))]

\* getKey / getSession / getSessionByHeader / getActiveSession after the
\* record was fetched (getSessionByHeader returns the key alone, held here in
\* a one-field object)
ReadRecord(kind, result, session) ==
    IF result = Undefined THEN [threw |-> "none", value |-> Undefined]
    ELSE IF result.encrypted
    THEN IF ~IsUnlocked(session)
         THEN [threw |-> ReadLockedError(kind), value |-> Undefined]
         ELSE IF DecryptValue(session, SecretOf(kind, result)).threw # "none"
         THEN [threw |-> DecryptValue(session, SecretOf(kind, result)).threw,
               value |-> Undefined]
         ELSE [threw |-> "none",
               value |-> ReturnedObject(kind, result,
                             DecryptValue(session, SecretOf(kind, result)).data)]
    ELSE [threw |-> "none",
          value |-> ReturnedObject(kind, result, SecretOf(kind, result))]

---------------------------------------------------------------------------
(* Server table 'devices' *)

DevicesOf(userId) == {d \in devices : d.user_id = userId}

\* .eq('user_id', userId).order('created_at', desc).limit(1).single():
\* the newest row, or an error (Undefined) when there is none
LatestDevice(userId) ==
    IF DevicesOf(userId) = {}
    THEN Undefined
    ELSE CHOOSE d \in DevicesOf(userId) :
             \A e \in DevicesOf(userId) : e.created_at <= d.created_at

---------------------------------------------------------------------------
(* X3DH *)

\* X3DH.establishSession after the bundle fetch: the sender's three agreements
EstablishSession(myIdentityKey, peerDevice, ephemeralKey, preKeyIndex) ==
    LET myIdPrivCurve == ConvertEd25519SecretKeyToCurve25519(myIdentityKey.privateKey)
        peerIdPubCurve == ConvertEd25519PublicKeyToCurve25519(peerDevice.public_identity_key)
        peerPreKey == peerDevice.public_prekeys[preKeyIndex + 1]
        dh1 == ComputeSharedSecret(myIdPrivCurve, peerPreKey)
        dh2 == ComputeSharedSecret(ephemeralKey.privateKey, peerIdPubCurve)
        dh3 == ComputeSharedSecret(ephemeralKey.privateKey, peerPreKey)
    IN  [sharedSecret |-> GenericHash(dh1 \o dh2 \o dh3),
         header |-> [senderIdentityKey |-> myIdentityKey.publicKey,
                     ephemeralKey |-> ephemeralKey.publicKey,
                     preKeyId |-> preKeyIndex]]

\* variant: the receiver concatenates its agreements in its own order of
\* roles (identity-side agreement first)
DeriveSessionFromHeaderOwnOrder(myIdentityKey, header, myPreKeyPrivate) ==
    LET myIdPrivCurve == ConvertEd25519SecretKeyToCurve25519(myIdentityKey.privateKey)
        senderIdPubCurve == ConvertEd25519PublicKeyToCurve25519(header.senderIdentityKey)
        ephemeralPub == header.ephemeralKey
        dh1 == ComputeSharedSecret(myIdPrivCurve, ephemeralPub)
        dh2 == ComputeSharedSecret(myPreKeyPrivate, senderIdPubCurve)
        dh3 == ComputeSharedSecret(myPreKeyPrivate, ephemeralPub)
    IN  GenericHash(dh1 \o dh2 \o dh3)

\* X3DH.deriveSessionFromHeader after the identity-key read: the receiver's
\* three agreements
DeriveSessionFromHeader(myIdentityKey, header, myPreKeyPrivate) ==
    LET myIdPrivCurve == ConvertEd25519SecretKeyToCurve25519(myIdentityKey.privateKey)
        senderIdPubCurve == ConvertEd25519PublicKeyToCurve25519(header.senderIdentityKey)
        ephemeralPub == header.ephemeralKey
        dh1 == ComputeSharedSecret(myPreKeyPrivate, senderIdPubCurve)
        dh2 == ComputeSharedSecret(myIdPrivCurve, ephemeralPub)
        dh3 == ComputeSharedSecret(myPreKeyPrivate, ephemeralPub)
    IN  GenericHash(dh1 \o dh2 \o dh3)

---------------------------------------------------------------------------
(* Receive path of useChat: one message through the history fetch or the   *)
(* realtime handler.  Each returns the displayed content, how the attempt   *)
(* ended (plaintext / authFailure: a decryption was tried and none opened / *)
(* noKey: no decryption was tried / error: another exception) and the key   *)
(* store after it.                                                          *)

PlaceholderContent == [kind |-> "[Encrypted Message]", text |-> 0]
UnavailableContent == [kind |-> "Message unavailable (Device keys changed)", text |-> 0]
MalformedContent == [kind |-> "Malformed message", text |-> 0]
PlainContent(text) == [kind |-> "plaintext", text |-> text]

\* typeof header.messageIndex === 'number'
HasMessageIndex(header) == "messageIndex" \in DOMAIN header

\* header.preKeyId || 0
PreKeyIdOrZero(header) == IF "preKeyId" \in DOMAIN header THEN header.preKeyId ELSE 0

\* decryptKey: the ratchet key at header.messageIndex, or the session key itself
DecryptKeyFor(sessionKey, header) ==
    IF HasMessageIndex(header)
    THEN DeriveKeyAtIndex(sessionKey, header.messageIndex)
    ELSE sessionKey

Received(content, outcome, store) ==
    [content |-> content, outcome |-> outcome, store |-> store]

\* variant: the pre-key record is used without the `if (myPreKey)` test, and
\* the TypeError lands in the outer catch
FetchDeriveFromHeaderUnchecked(t, msg, userId, triedCached) ==
    LET header == msg.ciphertext_header
        myPreKey == GetPreKey(t, PreKeyIdOrZero(header))
        myIdentityKey == GetIdentityKey(t)
        derivedSessionKey ==
            DeriveSessionFromHeader(myIdentityKey, header, myPreKey.privateKey)
        t2 == StoreSessionByHeader(t, header.ephemeralKey, derivedSessionKey)
        d == DecryptMessage(msg.ciphertext, DecryptKeyFor(derivedSessionKey, header))
    IN  IF msg.sender_user_id = userId
        THEN Received(PlaceholderContent, IF triedCached THEN "authFailure" ELSE "noKey", t)
        ELSE IF myPreKey = Undefined \/ myIdentityKey = Undefined
        THEN Received(MalformedContent, "error", t)
        ELSE IF d.ok THEN Received(PlainContent(d.text), "plaintext", t2)
        ELSE Received(UnavailableContent, "authFailure", t2)

\* fetchMessages, step 2: derive the session from the header
FetchDeriveFromHeader(t, msg, userId, triedCached) ==
    LET header == msg.ciphertext_header
        myPreKey == GetPreKey(t, PreKeyIdOrZero(header))
        myIdentityKey == GetIdentityKey(t)
        derivedSessionKey ==
            DeriveSessionFromHeader(myIdentityKey, header, myPreKey.privateKey)
        t2 == StoreSessionByHeader(t, header.ephemeralKey, derivedSessionKey)
        d == DecryptMessage(msg.ciphertext, DecryptKeyFor(derivedSessionKey, header))
        skipped == IF triedCached THEN "authFailure" ELSE "noKey"
    IN  IF msg.sender_user_id = userId THEN Received(PlaceholderContent, skipped, t)
        ELSE IF myPreKey = Undefined THEN Received(PlaceholderContent, skipped, t)
        ELSE IF myIdentityKey = Undefined THEN Received(MalformedContent, "error", t)
        ELSE IF d.ok THEN Received(PlainContent(d.text), "plaintext", t2)
        ELSE Received(UnavailableContent, "authFailure", t2)

\* fetchMessages, body of the loop over the fetched rows
FetchDecrypt(t, msg, userId) ==
    LET header == msg.ciphertext_header
        sessionKey == IF header.ephemeralKey = NoString THEN NoString
                      ELSE GetSessionByHeader(t, header.ephemeralKey)
        d1 == DecryptMessage(msg.ciphertext, DecryptKeyFor(sessionKey, header))
        d2 == DecryptMessage(msg.ciphertext, sessionKey)
    IN  IF sessionKey = NoString THEN FetchDeriveFromHeader(t, msg, userId, FALSE)
        ELSE IF d1.ok THEN Received(PlainContent(d1.text), "plaintext", t)
        ELSE IF HasMessageIndex(header) /\ d2.ok
             THEN Received(PlainContent(d2.text), "plaintext", t)
        ELSE FetchDeriveFromHeader(t, msg, userId, TRUE)

\* the realtime INSERT handler's decryption
RealtimeDecrypt(t, msg, userId) ==
    LET header == msg.ciphertext_header
        cached == GetSessionByHeader(t, header.ephemeralKey)
        myPreKey == GetPreKey(t, PreKeyIdOrZero(header))
        myIdentityKey == GetIdentityKey(t)
        derived == DeriveSessionFromHeader(myIdentityKey, header, myPreKey.privateKey)
        t2 == StoreSessionByHeader(t, header.ephemeralKey, derived)
        dc == DecryptMessage(msg.ciphertext, DecryptKeyFor(cached, header))
        dd == DecryptMessage(msg.ciphertext, DecryptKeyFor(derived, header))
    IN  IF cached # NoString
        THEN IF dc.ok THEN Received(PlainContent(dc.text), "plaintext", t)
             ELSE Received(PlaceholderContent, "authFailure", t)
        ELSE IF myPreKey = Undefined THEN Received(PlaceholderContent, "noKey", t)
        ELSE IF myIdentityKey = Undefined THEN Received(PlaceholderContent, "error", t)
        ELSE IF dd.ok THEN Received(PlainContent(dd.text), "plaintext", t2)
        ELSE Received(PlaceholderContent, "authFailure", t2)

---------------------------------------------------------------------------
(* State machine: user A runs the useChat hook in a conversation with B;    *)
(* B registers devices, resets its key store and receives.                  *)

Sender == "A"
Recipient == "B"
Calls == 1 .. MaxCalls

\* entropy reserved for keys made outside the two devices
ForeignIdentityKey == GenerateIdentityKeyPair(Len(Primes)).publicKey
ForeignPreKey == GeneratePreKey(Len(Primes) - 1).publicKey

MessageId(i) == <<"msg", i>>
TempId(c) == <<"temp", c>>

\* the local variables of sendMessage; branch, failedAt, peerHadDevice and
\* startCounters are history: the path taken, where it threw, whether the
\* peer had a device when it was queried, and the sender's session-counter
\* records when the call began
IdleCall ==
    [pc |-> "idle", text |-> 0, activeSession |-> Undefined,
     recipientDevice |-> Undefined, myIdentityKey |-> Undefined,
     session |-> Undefined, sessionKey |-> NoString, header |-> Undefined,
     messageCounter |-> 0, ciphertext |-> Undefined, branch |-> "none",
     failedAt |-> "none", peerHadDevice |-> TRUE, startCounters |-> EmptyStore]

\* a call that returned: its local variables are gone
FinishedCall(c, pc, failedAt) ==
    [IdleCall EXCEPT !.pc = pc, !.text = call[c].text, !.branch = call[c].branch,
                     !.failedAt = failedAt, !.peerHadDevice = call[c].peerHadDevice]

\* the session_counter records of a key store
SessionCounters(t) ==
    [id \in {x \in DOMAIN t : x[1] = "session_counter"} |-> t[id].counter]

NoReceive == [path |-> "none"]

NoUnlockCall == [made |-> FALSE]

NoSeek == [made |-> FALSE]

NoCipherCall == [made |-> FALSE]

NoOperation == [kind |-> "none", pc |-> "returned"]

\* the local variables of one register() run; skippedVault is the value the
\* effect closure captured
IdleRun ==
    [pc |-> "idle", skippedVault |-> FALSE, identityKey |-> Undefined,
     preKeyPublics |-> <<>>]

\* RegisterDevice before its first mount: useState(false) twice, no
\* handleVaultSetup in flight (setup = 0, no metadata waiting to be put), no
\* run
NoRegistration ==
    [needsVaultSetup |-> FALSE, skippedVault |-> FALSE, setup |-> 0,
     pending |-> Undefined, mounts |-> 0, started |-> 0,
     run |-> [r \in 1 .. MaxOverlap |-> IdleRun]]

\* one run of fetchMessages: idle, or for a conversation before its query
\* returned ("query") or between the query and setMessages ("decrypt")
IdleFetch == [pc |-> "idle", conv |-> 0, data |-> <<>>]

\* useChat before a conversation is selected: activeConversationId null
\* (0), no messages; rows, events, fetch and rt are the server rows of the
\* conversations, the INSERT events not yet delivered, the fetchMessages
\* runs and the realtime decryptions in flight; selects counts selections
NoView ==
    [active |-> 0, list |-> <<>>, rows |-> <<>>, events |-> {},
     fetch |-> [s \in 1 .. MaxFetches |-> IdleFetch], rt |-> {}, selects |-> 0]

\* VaultUnlock before its first attempt: no 'vault_attempts' item (read as
\* 0), isUnlocking false; password, storedAttempts and meta are the locals
\* of the handleUnlock call, outcome what the last call did, tries counts
\* the calls; failedIn is history: the number of vaults made when the last
\* failed attempt was recorded
NoUnlock ==
    [stored |-> 0, isUnlocking |-> FALSE, password |-> 0, storedAttempts |-> 0,
     meta |-> Undefined, outcome |-> "none", tries |-> 0, failedIn |-> 0]

\* useCall before its effect ran: no peer, peerReady false; gen numbers the
\* runs of the effect, mounted is the isMounted of the latest run, peers
\* the Peer objects made, retry the pending retryTimeout
NoPeer ==
    [gen |-> 0, mounted |-> FALSE, peers |-> <<>>, peerRef |-> 0, peer |-> 0,
     peerReady |-> FALSE, retry |-> 0, initAttemptRef |-> 0]

\* useCall at rest: callState and callStateRef IDLE, every ref null (0),
\* no timer; conns are the MediaConnections made, op the asynchronous
\* call operation in flight
NoCall ==
    [callState |-> "IDLE", callStateRef |-> "IDLE", incomingCallRef |-> 0,
     activeCallRef |-> 0, localStreamRef |-> 0, callLogIdRef |-> 0,
     currentCallLogId |-> 0, timer |-> "none", timeoutRef |-> FALSE,
     conns |-> <<>>, streams |-> <<>>, op |-> "idle", starts |-> 0]

\* granted: a key was cached with no lockVault or clearAll since;
\* initialized: KeyStore.initializeVault completed with no clearAll since;
\* password: the password of that initializeVault; afterWrong: an unlockVault
\* returned false with no successful one since; phase and original: an
\* identity key pair was stored under the vault, then the vault was locked,
\* then reopened; ops and inits count the operations begun
NoVaultHistory ==
    [granted |-> FALSE, initialized |-> FALSE, password |-> 0, afterWrong |-> FALSE,
     phase |-> "none", original |-> Undefined, ops |-> 0, inits |-> 0]

Init ==
    /\ db = [u \in Users |->
               IF u = Sender
               THEN StoreIdentityKey(EmptyStore, GenerateIdentityKeyPair(1))
               ELSE EmptyStore]
    /\ devices = {}
    /\ clock = 0
    /\ messages = <<>>
    /\ rtPending = [u \in Users |-> {}]
    /\ msgList = [u \in Users |-> <<>>]
    /\ call = [c \in Calls |-> IdleCall]
    /\ nextKey = 1
    /\ usedBundle = [ek \in {} |-> Undefined]
    /\ recvLog = NoReceive
    /\ rRoot = NoString
    /\ rState = InitializeChain(NoString)
    /\ rOut = RatchetForSend(InitializeChain(NoString))
    /\ rCalls = 0
    /\ rSeek = NoSeek
    /\ cOut = NoCipherCall
    /\ uCall = NoUnlockCall
    /\ vSession = NoSessionKey
    /\ kop = NoOperation
    /\ vhist = NoVaultHistory
    /\ reg = NoRegistration
    /\ view = NoView
    /\ unlockUi = NoUnlock
    /\ peerUi = NoPeer
    /\ callUi = NoCall

---------------------------------------------------------------------------
(* Device registration and key-store reset *)

\* RegisterDevice.register, step 3: registration is skipped when the server
\* holds a device with the local identity key and pre-key 0 exists locally
RegistrationNeeded(t, userId) ==
    IF GetIdentityKey(t) = Undefined THEN TRUE
    ELSE IF GetPreKey(t, 0) = Undefined THEN TRUE
    ELSE ~ \E d \in DevicesOf(userId) :
              d.public_identity_key = GetIdentityKey(t).publicKey

\* the loop generating and storing PREKEY_COUNT pre-keys, from index i
RECURSIVE StorePreKeys(_, _, _)
StorePreKeys(t, i, entropy) ==
    IF i < PreKeyPool
    THEN StorePreKeys(StorePreKey(t, i, GeneratePreKey(entropy + i + 1)), i + 1, entropy)
    ELSE t

\* one run of RegisterDevice.register that reaches the device insert;
\* ok = FALSE is a deviceError from the insert (old rows are already deleted)
RegisterDevice(u, ok) ==
    /\ clock < MaxRegs
    /\ RegistrationNeeded(db[u], u)
    /\ LET fresh == GetIdentityKey(db[u]) = Undefined
           entropy == IF fresh THEN nextKey + 1 ELSE nextKey
           withIdentity == IF fresh
                           THEN StoreIdentityKey(db[u], GenerateIdentityKeyPair(nextKey + 1))
                           ELSE db[u]
           t2 == StorePreKeys(withIdentity, 0, entropy)
           row == [user_id |-> u,
                   public_identity_key |-> GetIdentityKey(t2).publicKey,
                   public_prekeys |-> [i \in 1 .. PreKeyPool |->
                                          GetPreKey(t2, i - 1).publicKey],
                   created_at |-> clock + 1]
       IN  /\ db' = [db EXCEPT ![u] = t2]
           /\ nextKey' = entropy + PreKeyPool
           /\ devices' = (devices \ DevicesOf(u)) \cup (IF ok THEN {row} ELSE {})
    /\ clock' = clock + 1
    /\ UNCHANGED <<messages, rtPending, msgList, call, usedBundle, recvLog, ratchetVars, uiVars, vaultVars>>

\* the devices table as another client of the user leaves it: the user's
\* rows replaced by one whose public_prekeys is empty
PeerDeviceWithoutPreKeys(u) ==
    /\ clock < MaxRegs
    /\ GetIdentityKey(db[u]) # Undefined
    /\ devices' = (devices \ DevicesOf(u))
                     \cup {[user_id |-> u,
                            public_identity_key |-> GetIdentityKey(db[u]).publicKey,
                            public_prekeys |-> <<>>,
                            created_at |-> clock + 1]}
    /\ clock' = clock + 1
    /\ UNCHANGED <<db, messages, rtPending, msgList, call, nextKey, usedBundle,
                   recvLog, ratchetVars, uiVars, vaultVars>>

\* VaultUnlock.handleForgotPassword: KeyStore.clearAll on a non-empty store;
\* the store is cleared and the session slot with it
ClearAll(u) ==
    /\ db[u] # EmptyStore
    /\ db' = [db EXCEPT ![u] = ClearedStore(db[u])]
    /\ vSession' = LockVaultCrypto(vSession)
    /\ vhist' = [vhist EXCEPT !.granted = FALSE, !.initialized = FALSE,
                              !.password = 0, !.afterWrong = FALSE,
                              !.phase = "none", !.original = Undefined]
    /\ UNCHANGED <<devices, clock, messages, rtPending, msgList, call, nextKey,
                   usedBundle, recvLog, ratchetVars, uiVars, uCall, reg, kop>>

---------------------------------------------------------------------------
(* useChat.sendMessage, one action per await that touches shared state *)

InFlight(c) == call[c].pc \notin {"idle", "done", "failed"}

\* variant: the optimistic message stays in the list
WithoutIdKeepsAll(list, id) == list

\* setMessages(prev => prev.filter(m => m.id !== tempId))
RECURSIVE WithoutId(_, _)
WithoutId(list, id) ==
    IF list = <<>> THEN <<>>
    ELSE IF Head(list).id = id THEN WithoutId(Tail(list), id)
    ELSE <<Head(list)>> \o WithoutId(Tail(list), id)

\* setMessages(prev => prev.map(m => m.id === tempId ? {...m, id: realId} : m))
WithRealId(list, tempId, realId) ==
    [i \in 1 .. Len(list) |->
        IF list[i].id = tempId THEN [list[i] EXCEPT !.id = realId] ELSE list[i]]

\* the catch block: roll the optimistic message back
Thrown(c, where) ==
    /\ call' = [call EXCEPT ![c] = FinishedCall(c, "failed", where)]
    /\ msgList' = [msgList EXCEPT ![Sender] = WithoutId(@, TempId(c))]

\* the optimistic update, then the first await of the try block; invocations
\* take the call slots in order
SendBegin(c) ==
    /\ call[c].pc = "idle"
    /\ \A o \in Calls : o < c => call[o].pc # "idle"
    /\ call' = [call EXCEPT ![c].pc = "getActiveSession", ![c].text = c,
                            ![c].startCounters = SessionCounters(db[Sender])]
    /\ msgList' = [msgList EXCEPT ![Sender] =
                      Append(@, [id |-> TempId(c), content |-> PlainContent(c),
                                 sender_id |-> Sender, sent |-> TRUE])]
    /\ UNCHANGED <<db, devices, clock, messages, rtPending, nextKey, usedBundle,
                   recvLog, ratchetVars, uiVars, vaultVars>>

\* sendMessage called at any time, also while earlier calls are still running
\* (ChatLayout.handleSendMessage holds no lock)
SendStart(c) ==
    /\ c <= MaxCallsWide
    /\ SendBegin(c)

\* sendMessage called while no other call is between its start and its end
SendStartAlone(c) ==
    /\ \A o \in Calls : ~InFlight(o)
    /\ SendBegin(c)

\* the same, in a behaviour with an altered row
SendStartBeforeTamper(c) ==
    /\ c <= MaxCallsWide
    /\ recvLog = NoReceive
    /\ SendStartAlone(c)

SendGetActiveSession(c) ==
    /\ call[c].pc = "getActiveSession"
    /\ call' = [call EXCEPT ![c].pc = "fetchDevice",
                            ![c].activeSession = GetActiveSession(db[Sender], Recipient)]
    /\ UNCHANGED <<db, devices, clock, messages, rtPending, msgList, nextKey,
                   usedBundle, recvLog, ratchetVars, uiVars, vaultVars>>

\* variant: a cached session is reused whatever the fetched device is
ReuseSessionAnyDevice(activeSession, recipientDevice) ==
    /\ activeSession # Undefined
    /\ activeSession.key # NoString
    /\ activeSession.header # Undefined

\* the reuse test: cached session present and both recorded values current
ReuseSession(activeSession, recipientDevice) ==
    /\ activeSession # Undefined
    /\ activeSession.key # NoString
    /\ activeSession.header # Undefined
    /\ activeSession.peerIdentityKey = recipientDevice.public_identity_key
    /\ activeSession.deviceCreatedAt = recipientDevice.created_at

\* variant: without a device the send always throws
CanFallBackNever(activeSession) == FALSE

\* `if (activeSession)` in the no-device branch
CanFallBack(activeSession) == activeSession # Undefined

\* the devices query and the synchronous branch that follows it;
\* fetched = Undefined is devError or an empty result
SendFetchDevice(c, fetched) ==
    /\ call[c].pc = "fetchDevice"
    /\ fetched \in {LatestDevice(Recipient), Undefined}
    /\ LET activeSession == call[c].activeSession
       IN  IF fetched = Undefined
           THEN IF CanFallBack(activeSession)
                THEN /\ call' = [call EXCEPT ![c].pc = "getCounter",
                                             ![c].branch = "fallback",
                                             ![c].peerHadDevice =
                                                 LatestDevice(Recipient) # Undefined,
                                             ![c].sessionKey = activeSession.key,
                                             ![c].header = activeSession.header]
                     /\ UNCHANGED msgList
                ELSE /\ call' = [call EXCEPT ![c] =
                                    [FinishedCall(c, "failed", "noDevice") EXCEPT
                                        !.peerHadDevice =
                                            LatestDevice(Recipient) # Undefined]]
                     /\ msgList' = [msgList EXCEPT ![Sender] = WithoutId(@, TempId(c))]
           ELSE /\ IF ReuseSession(activeSession, fetched)
                   THEN call' = [call EXCEPT ![c].pc = "storeByHeader",
                                             ![c].branch = "reuse",
                                             ![c].recipientDevice = fetched,
                                             ![c].sessionKey = activeSession.key,
                                             ![c].header = activeSession.header]
                   ELSE call' = [call EXCEPT ![c].pc = "estIdentity",
                                             ![c].branch = "handshake",
                                             ![c].recipientDevice = fetched]
                /\ UNCHANGED msgList
    /\ UNCHANGED <<db, devices, clock, messages, rtPending, nextKey, usedBundle,
                   recvLog, ratchetVars, uiVars, vaultVars>>

\* X3DH.establishSession: KeyStore.getIdentityKey
SendEstIdentity(c) ==
    /\ call[c].pc = "estIdentity"
    /\ IF GetIdentityKey(db[Sender]) = Undefined
       THEN Thrown(c, "estIdentity")
       ELSE /\ call' = [call EXCEPT ![c].pc = "estBundle",
                                    ![c].myIdentityKey = GetIdentityKey(db[Sender])]
            /\ UNCHANGED msgList
    /\ UNCHANGED <<db, devices, clock, messages, rtPending, nextKey, usedBundle,
                   recvLog, ratchetVars, uiVars, vaultVars>>

\* X3DH.establishSession: fetchPeerBundle, the ephemeral key, the random
\* pre-key index and the three agreements
SendEstBundle(c, preKeyIndex) ==
    /\ call[c].pc = "estBundle"
    /\ LET peerDevice == LatestDevice(Recipient)
       IN  IF peerDevice = Undefined
           THEN /\ preKeyIndex = 0
                /\ Thrown(c, "estBundle")
                /\ UNCHANGED <<nextKey, usedBundle>>
           ELSE IF Len(peerDevice.public_prekeys) = 0
           THEN /\ preKeyIndex = 0
                /\ Thrown(c, "noPreKeys")
                /\ UNCHANGED <<nextKey, usedBundle>>
           ELSE /\ preKeyIndex \in 0 .. Len(peerDevice.public_prekeys) - 1
                /\ LET ephemeralKey == GeneratePreKey(nextKey + 1)
                       session == EstablishSession(call[c].myIdentityKey, peerDevice,
                                                   ephemeralKey, preKeyIndex)
                   IN  /\ call' = [call EXCEPT ![c].pc = "storeActive",
                                               ![c].session = session,
                                               ![c].sessionKey = session.sharedSecret,
                                               ![c].header = session.header]
                       /\ usedBundle' =
                            [ek \in (DOMAIN usedBundle) \cup {ephemeralKey.publicKey} |->
                               IF ek = ephemeralKey.publicKey
                               THEN [identity |-> peerDevice.public_identity_key,
                                     prekey |-> peerDevice.public_prekeys[preKeyIndex + 1],
                                     created_at |-> peerDevice.created_at]
                               ELSE usedBundle[ek]]
                /\ nextKey' = nextKey + 1
                /\ UNCHANGED msgList
    /\ UNCHANGED <<db, devices, clock, messages, rtPending, recvLog, ratchetVars, uiVars, vaultVars>>

SendStoreActive(c) ==
    /\ call[c].pc = "storeActive"
    /\ db' = [db EXCEPT ![Sender] =
                 StoreActiveSession(@, Recipient, call[c].sessionKey, call[c].header,
                                    call[c].recipientDevice.public_identity_key,
                                    call[c].recipientDevice.created_at)]
    /\ call' = [call EXCEPT ![c].pc = "storeByHeader"]
    /\ UNCHANGED <<devices, clock, messages, rtPending, msgList, nextKey,
                   usedBundle, recvLog, ratchetVars, uiVars, vaultVars>>

SendStoreByHeader(c) ==
    /\ call[c].pc = "storeByHeader"
    /\ db' = [db EXCEPT ![Sender] =
                 StoreSessionByHeader(@, call[c].header.ephemeralKey, call[c].sessionKey)]
    /\ call' = [call EXCEPT ![c].pc = "getCounter"]
    /\ UNCHANGED <<devices, clock, messages, rtPending, msgList, nextKey,
                   usedBundle, recvLog, ratchetVars, uiVars, vaultVars>>

SendGetCounter(c) ==
    /\ call[c].pc = "getCounter"
    /\ call' = [call EXCEPT ![c].pc = "encrypt",
                            ![c].messageCounter =
                                GetSessionCounter(db[Sender], call[c].header.ephemeralKey)]
    /\ UNCHANGED <<db, devices, clock, messages, rtPending, msgList, nextKey,
                   usedBundle, recvLog, ratchetVars, uiVars, vaultVars>>

\* variant: the counter is written back unchanged
NextCounterSame(messageCounter) == messageCounter

\* the value sendMessage writes back to the session counter
NextCounter(messageCounter) == messageCounter + 1

\* deriveKeyAtIndex, encryptMessage under a fresh random nonce and
\* storeSessionCounter
SendEncrypt(c) ==
    /\ call[c].pc = "encrypt"
    /\ LET messageKey == DeriveKeyAtIndex(call[c].sessionKey, call[c].messageCounter)
       IN  call' = [call EXCEPT ![c].pc = "insert",
                                ![c].ciphertext =
                                    EncryptMessage(call[c].text, messageKey, nextKey + 1)]
    /\ nextKey' = nextKey + 1
    /\ db' = [db EXCEPT ![Sender] =
                 StoreSessionCounter(@, call[c].header.ephemeralKey,
                                     NextCounter(call[c].messageCounter))]
    /\ UNCHANGED <<devices, clock, messages, rtPending, msgList, usedBundle,
                   recvLog, ratchetVars, uiVars, vaultVars>>

\* variant: the header carries the incremented counter
HeaderWithNextIndex(header, messageCounter) ==
    [senderIdentityKey |-> header.senderIdentityKey,
     ephemeralKey |-> header.ephemeralKey,
     preKeyId |-> header.preKeyId,
     messageIndex |-> messageCounter + 1]

\* the header written with the message
HeaderWithIndex(header, messageCounter) ==
    [senderIdentityKey |-> header.senderIdentityKey,
     ephemeralKey |-> header.ephemeralKey,
     preKeyId |-> header.preKeyId,
     messageIndex |-> messageCounter]

\* supabase.from('messages').insert(...) succeeds
SendInsert(c) ==
    /\ call[c].pc = "insert"
    /\ messages' = Append(messages,
                          [id |-> MessageId(Len(messages) + 1),
                           sender_user_id |-> Sender,
                           ciphertext |-> call[c].ciphertext,
                           ciphertext_header |->
                               HeaderWithIndex(call[c].header, call[c].messageCounter),
                           call |-> c])
    /\ rtPending' = [u \in Users |->
                        IF u = Sender THEN rtPending[u]
                        ELSE rtPending[u] \cup {Len(messages) + 1}]
    /\ call' = [call EXCEPT ![c] = FinishedCall(c, "done", "none")]
    /\ msgList' = [msgList EXCEPT ![Sender] =
                      WithRealId(@, TempId(c), MessageId(Len(messages) + 1))]
    /\ UNCHANGED <<db, devices, clock, nextKey, usedBundle, recvLog, ratchetVars, uiVars, vaultVars>>

\* a key-store request or the insert is rejected (IndexedDB error, network
\* error): control passes to the catch block before the step takes effect
SendThrows(c) ==
    /\ call[c].pc \in {"getActiveSession", "storeActive", "storeByHeader",
                       "getCounter", "encrypt", "insert"}
    /\ Thrown(c, call[c].pc)
    /\ UNCHANGED <<db, devices, clock, messages, rtPending, nextKey, usedBundle,
                   recvLog, ratchetVars, uiVars, vaultVars>>

---------------------------------------------------------------------------
(* Receiving: the history fetch and the realtime handler *)

\* the text the sender passed to sendMessage for this row
SentText(row) == call[row.call].text

\* the key store holds the private halves of the bundle that the handshake
\* of this header used
KeysMatch(t, header) ==
    LET bundle == usedBundle[header.ephemeralKey]
    IN  /\ GetIdentityKey(t) # Undefined
        /\ GetIdentityKey(t).publicKey = bundle.identity
        /\ GetPreKey(t, header.preKeyId) # Undefined
        /\ GetPreKey(t, header.preKeyId).publicKey = bundle.prekey

\* what an altered row led to, and whether the row as sent would have been
\* decrypted by the same path from the same key store
LogEntry(path, sent, delivered, got, wouldGet) ==
    [path |-> path, sent |-> sent, delivered |-> delivered,
     content |-> got.content, outcome |-> got.outcome,
     origOK |-> wouldGet.content = PlainContent(SentText(sent))]

\* variant: a row that does not decrypt ends the loop (no catch around the
\* decryption)
RECURSIVE FetchLoopStopsAtFailure(_, _, _, _, _, _)
FetchLoopStopsAtFailure(t, delivered, j, userId, list, log) ==
    IF j > Len(delivered) THEN [store |-> t, list |-> list, log |-> log]
    ELSE LET msg == delivered[j]
             got == FetchDecrypt(t, msg, userId)
             nextLog == IF msg = messages[j] THEN log
                        ELSE LogEntry("fetch", messages[j], msg, got,
                                      FetchDecrypt(t, messages[j], userId))
         IN  IF got.outcome \in {"authFailure", "error"}
             THEN [store |-> got.store, list |-> list, log |-> nextLog]
             ELSE FetchLoopStopsAtFailure(
                      got.store, delivered, j + 1, userId,
                      Append(list, [id |-> msg.id, content |-> got.content,
                                    sender_id |-> msg.sender_user_id,
                                    sent |-> msg.sender_user_id = userId]),
                      nextLog)

\* the loop `for (const msg of data)` of fetchMessages from row j: the key
\* store and the decrypted list after the last row (and the log entry of an
\* altered row)
RECURSIVE FetchLoop(_, _, _, _, _, _)
FetchLoop(t, delivered, j, userId, list, log) ==
    IF j > Len(delivered) THEN [store |-> t, list |-> list, log |-> log]
    ELSE LET msg == delivered[j]
             got == FetchDecrypt(t, msg, userId)
         IN  FetchLoop(got.store, delivered, j + 1, userId,
                       Append(list, [id |-> msg.id, content |-> got.content,
                                     sender_id |-> msg.sender_user_id,
                                     sent |-> msg.sender_user_id = userId]),
                       IF msg = messages[j] THEN log
                       ELSE LogEntry("fetch", messages[j], msg, got,
                                     FetchDecrypt(t, messages[j], userId)))

\* the fetch-messages effect on rows as delivered to the client
Fetch(u, delivered) ==
    /\ LET r == FetchLoop(db[u], delivered, 1, u, <<>>, recvLog)
       IN  /\ db' = [db EXCEPT ![u] = r.store]
           /\ msgList' = [msgList EXCEPT ![u] = r.list]
           /\ recvLog' = r.log
    /\ UNCHANGED <<devices, clock, messages, rtPending, call, nextKey, usedBundle,
                   ratchetVars, uiVars, vaultVars>>

\* the INSERT handler of the global_messages channel on row i as delivered
Realtime(u, i, msg) ==
    /\ i \in rtPending[u]
    /\ msg.sender_user_id # u
    /\ LET got == RealtimeDecrypt(db[u], msg, u)
       IN  /\ db' = [db EXCEPT ![u] = got.store]
           /\ msgList' = [msgList EXCEPT ![u] =
                             IF \E k \in 1 .. Len(@) : @[k].id = msg.id THEN @
                             ELSE Append(@, [id |-> msg.id, content |-> got.content,
                                             sender_id |-> msg.sender_user_id,
                                             sent |-> FALSE])]
           /\ recvLog' = IF msg = messages[i] THEN recvLog
                          ELSE LogEntry("realtime", messages[i], msg, got,
                                        RealtimeDecrypt(db[u], messages[i], u))
    /\ rtPending' = [rtPending EXCEPT ![u] = @ \ {i}]
    /\ UNCHANGED <<devices, clock, messages, call, nextKey, usedBundle, ratchetVars, uiVars, vaultVars>>

FetchMessages(u) ==
    /\ messages # <<>>
    /\ Fetch(u, messages)

RealtimeMessage(u, i) ==
    /\ i \in 1 .. Len(messages)
    /\ Realtime(u, i, messages[i])

\* rows that differ from msg in the ciphertext or in one header field
TamperedRows(msg) ==
    LET header == msg.ciphertext_header
        ciphertexts ==
            {messages[k].ciphertext : k \in 1 .. Len(messages)}
            \cup {[msg.ciphertext EXCEPT !.nonce = @ + 1],
                  [msg.ciphertext EXCEPT !.box.key = NoString]}
        identityKeys ==
            {d.public_identity_key : d \in devices} \cup {ForeignIdentityKey}
        ephemeralKeys ==
            {messages[k].ciphertext_header.ephemeralKey : k \in 1 .. Len(messages)}
            \cup {ForeignPreKey}
        preKeyIds == {(header.preKeyId + 1) % PreKeyPool, PreKeyPool}
        indices == {header.messageIndex + 1, header.messageIndex - 1}
    IN  {[msg EXCEPT !.ciphertext = x] : x \in ciphertexts \ {msg.ciphertext}}
        \cup {[msg EXCEPT !.ciphertext_header.senderIdentityKey = x] :
                 x \in identityKeys \ {header.senderIdentityKey}}
        \cup {[msg EXCEPT !.ciphertext_header.ephemeralKey = x] :
                 x \in ephemeralKeys \ {header.ephemeralKey}}
        \cup {[msg EXCEPT !.ciphertext_header.preKeyId = x] :
                 x \in preKeyIds \ {header.preKeyId}}
        \cup {[msg EXCEPT !.ciphertext_header.messageIndex = x] :
                 x \in indices \ {header.messageIndex}}

\* the history fetch, one row altered in transit (one alteration per behaviour)
FetchTampered(u, i, row) ==
    /\ recvLog = NoReceive
    /\ i \in 1 .. Len(messages)
    /\ row \in TamperedRows(messages[i])
    /\ Fetch(u, [messages EXCEPT ![i] = row])

\* the realtime handler on a row altered in transit
RealtimeTampered(u, i, row) ==
    /\ recvLog = NoReceive
    /\ i \in 1 .. Len(messages)
    /\ row \in TamperedRows(messages[i])
    /\ Realtime(u, i, row)

---------------------------------------------------------------------------
(* Ratchet harness: the sequential sender chain next to the index seek *)

HarnessScalars == {Scalar(n) : n \in 1 .. MaxRootScalar}

\* root secrets as X3DH produces them
RootSecrets ==
    {GenericHash(<<a, b, c>>) : a \in HarnessScalars, b \in HarnessScalars,
                                c \in HarnessScalars}

RatchetInitialize(sharedSecret) ==
    /\ sharedSecret \in RootSecrets
    /\ rCalls = 0
    /\ rRoot = NoString
    /\ rRoot' = sharedSecret
    /\ rState' = InitializeChain(sharedSecret)
    /\ UNCHANGED <<rOut, rCalls, rSeek, cOut, chatVars, vaultVars, uiVars>>

RatchetSend ==
    /\ rRoot # NoString
    /\ rCalls <= MaxRatchet
    /\ rOut' = RatchetForSend(rState)
    /\ rState' = RatchetForSend(rState).newState
    /\ rCalls' = rCalls + 1
    /\ UNCHANGED <<rRoot, rSeek, cOut, chatVars, vaultVars, uiVars>>

\* deriveKeyAtIndex(S, n) and deriveKeyAtIndex(S, m) on the chain's root
RatchetSeek(n, m) ==
    /\ rRoot # NoString
    /\ rSeek' = [made |-> TRUE, n |-> n, m |-> m,
                 keyN |-> DeriveKeyAtIndex(rRoot, n),
                 keyM |-> DeriveKeyAtIndex(rRoot, m)]
    /\ UNCHANGED <<rRoot, rState, rOut, rCalls, cOut, chatVars, vaultVars, uiVars>>

---------------------------------------------------------------------------
(* Cipher harness: Cipher.encryptMessage, then Cipher.decryptMessage of its *)
(* output under the same key or another one                                 *)

CipherTexts == 1 .. MaxCipherTexts
CipherNonces == 1 .. MaxCipherNonces

\* message keys as the ratchet derives them, at the first two indices
CipherKeys == {DeriveKeyAtIndex(root, i) : root \in RootSecrets, i \in 0 .. 1}

CipherCall(message, key, nonce, openKey) ==
    /\ ~cOut.made
    /\ cOut' = [made |-> TRUE, message |-> message, key |-> key, nonce |-> nonce,
                openKey |-> openKey,
                encrypted |-> EncryptMessage(message, key, nonce),
                decrypted |-> DecryptMessage(EncryptMessage(message, key, nonce), openKey)]
    /\ UNCHANGED <<rRoot, rState, rOut, rCalls, rSeek, chatVars, vaultVars, uiVars>>

NextCipher ==
    \E message \in CipherTexts, key \in CipherKeys, nonce \in CipherNonces :
        \E openKey \in {key, DeriveKeyAtIndex(GenericHash(<<Scalar(1), Scalar(1), Scalar(1)>>), 2)} :
            CipherCall(message, key, nonce, openKey)

SpecCipher == Init /\ [][NextCipher]_vars

---------------------------------------------------------------------------
(* Vault machine: the recipient's tab calls the key store and the vault,    *)
(* one operation at a time; lockVault and clearAll run between its steps    *)

VaultOwner == Recipient

Passwords == 1 .. MaxPasswords

\* the n-th salt drawn by crypto.getRandomValues, as base64 text
Salt(n) == [salt |-> n]

Salts == {Salt(n) : n \in 1 .. MaxSalts}

\* an operation may begin: the last one is over
CanBegin == kop.pc \in {"returned", "threw"} /\ vhist.ops < MaxVaultOps

VaultSessionKey == GenericHash32(<<2, 3>>)
VaultHeader ==
    [senderIdentityKey |-> GenerateIdentityKeyPair(1).publicKey,
     ephemeralKey |-> GeneratePreKey(4).publicKey, preKeyId |-> 0]

\* the store calls made: storeKey('identity', pair) and one session of the
\* peer through each of the three session stores
StoreCalls ==
    {[kind |-> "storeKey", args |-> [id |-> IdentityId, key |-> GenerateIdentityKeyPair(n)]] :
        n \in 2 .. 3}
    \cup {[kind |-> "storeSession",
            args |-> [userId |-> Sender, sessionKey |-> VaultSessionKey,
                      header |-> VaultHeader]],
          [kind |-> "storeSessionByHeader",
            args |-> [ephemeralKey |-> VaultHeader.ephemeralKey,
                      sessionKey |-> VaultSessionKey]],
          [kind |-> "storeActiveSession",
            args |-> [userId |-> Sender, sessionKey |-> VaultSessionKey,
                      header |-> VaultHeader,
                      peerIdentityKey |-> VaultHeader.senderIdentityKey,
                      deviceCreatedAt |-> 1]]}

ReadCalls ==
    {[kind |-> "getKey", args |-> [id |-> IdentityId]],
     [kind |-> "getSession", args |-> [userId |-> Sender]],
     [kind |-> "getSessionByHeader", args |-> [ephemeralKey |-> VaultHeader.ephemeralKey]],
     [kind |-> "getActiveSession", args |-> [userId |-> Sender]]}

\* KeyStore.initializeVault up to `await this.storeVaultMeta(...)`:
\* VaultCrypto.initializeVault draws the salt, derives the key, caches it
InitializeVaultBegin(password) ==
    /\ CanBegin
    /\ ~HasVault(db[VaultOwner])
    /\ vhist.inits < MaxSalts
    /\ LET made == InitializeVaultCrypto(password, Salt(vhist.inits + 1), vhist.ops + 1)
       IN  /\ vSession' = made.session
           /\ kop' = [kind |-> "initializeVault", pc |-> "storeVaultMeta",
                      password |-> password,
                      meta |-> [salt |-> made.salt, verifier |-> made.verifier]]
    /\ vhist' = [vhist EXCEPT !.granted = TRUE, !.afterWrong = FALSE,
                              !.ops = @ + 1, !.inits = @ + 1]
    /\ UNCHANGED <<chatVars, ratchetVars, uiVars, uCall, reg>>

\* KeyStore.initializeVault, the storeVaultMeta transaction
InitializeVaultStoreMeta ==
    /\ kop.kind = "initializeVault" /\ kop.pc = "storeVaultMeta"
    /\ db' = [db EXCEPT ![VaultOwner] = StoreVaultMeta(db[VaultOwner], kop.meta)]
    /\ kop' = [kop EXCEPT !.pc = "returned"]
    /\ vhist' = [vhist EXCEPT !.initialized = TRUE, !.password = kop.password]
    /\ UNCHANGED <<devices, clock, messages, rtPending, msgList, call, nextKey,
                   usedBundle, recvLog, ratchetVars, uiVars, uCall, reg, vSession>>

\* KeyStore.unlockVault up to `await this.getVaultMeta()`
UnlockVaultBegin(password) ==
    /\ CanBegin
    /\ kop' = IF HasVault(db[VaultOwner])
              THEN [kind |-> "unlockVault", pc |-> "unlock", password |-> password,
                    meta |-> GetVaultMeta(db[VaultOwner])]
              ELSE [kind |-> "unlockVault", pc |-> "threw", password |-> password,
                    threw |-> "Vault not initialized"]
    /\ vhist' = [vhist EXCEPT !.ops = @ + 1]
    /\ UNCHANGED <<chatVars, ratchetVars, uiVars, uCall, reg, vSession>>

\* KeyStore.unlockVault, the VaultCrypto.unlockVault call on the metadata read
UnlockVaultFinish ==
    /\ kop.kind = "unlockVault" /\ kop.pc = "unlock"
    /\ LET r == UnlockVaultCrypto(vSession, kop.password, kop.meta.salt, kop.meta.verifier)
       IN  /\ vSession' = r.session
           /\ kop' = [kind |-> "unlockVault", pc |-> "returned",
                      password |-> kop.password, result |-> r.returned,
                      rightPassword |-> vhist.initialized /\ kop.password = vhist.password,
                      wrongPassword |-> vhist.initialized /\ kop.password # vhist.password,
                      wasUnlocked |-> IsUnlocked(vSession)]
           /\ vhist' = [vhist EXCEPT
                          !.granted = @ \/ r.returned,
                          !.afterWrong = ~r.returned,
                          !.phase = IF r.returned /\ @ = "locked" THEN "reopened" ELSE @]
    /\ UNCHANGED <<chatVars, ratchetVars, uiVars, uCall, reg>>

\* KeyStore.lockVault
LockVault ==
    /\ vSession' = LockVaultCrypto(vSession)
    /\ vhist' = [vhist EXCEPT
                   !.granted = FALSE,
                   !.phase = IF @ \in {"stored", "reopened"} THEN "locked" ELSE @]
    /\ UNCHANGED <<chatVars, ratchetVars, uiVars, uCall, reg, kop>>

\* storeKey / storeSession / storeSessionByHeader / storeActiveSession up to
\* `await this.openDB()`: hasVault is read and the first check made
StoreBegin(kind, args) ==
    /\ CanBegin
    /\ kop' = IF StoreRefused(HasVault(db[VaultOwner]), vSession)
              THEN [kind |-> kind, args |-> args, pc |-> "threw",
                    threw |-> StoreLockedError(kind),
                    hasVault |-> HasVault(db[VaultOwner])]
              ELSE [kind |-> kind, args |-> args, pc |-> "openDB",
                    hasVault |-> HasVault(db[VaultOwner]), nonce |-> vhist.ops + 1]
    /\ vhist' = [vhist EXCEPT !.ops = @ + 1]
    /\ UNCHANGED <<chatVars, ratchetVars, uiVars, uCall, reg, vSession>>

\* the same, from the second check to the end of the put transaction
StoreFinish ==
    /\ kop.pc = "openDB"
    /\ LET t2 == StoreWrite(db[VaultOwner], kop.kind, kop.args, kop.hasVault,
                            vSession, kop.nonce)
           written == t2[OperationId(kop.kind, kop.args)]
       IN  /\ db' = [db EXCEPT ![VaultOwner] = t2]
           /\ kop' = [kind |-> kop.kind, args |-> kop.args, pc |-> "returned",
                      hasVault |-> kop.hasVault, written |-> written]
           /\ vhist' = IF kop.kind = "storeKey"
                       THEN [vhist EXCEPT
                               !.phase = IF written.encrypted THEN "stored" ELSE "none",
                               !.original = IF written.encrypted THEN kop.args.key
                                            ELSE Undefined]
                       ELSE vhist
    /\ UNCHANGED <<devices, clock, messages, rtPending, msgList, call, nextKey,
                   usedBundle, recvLog, ratchetVars, uiVars, uCall, reg, vSession>>

\* getKey / getSession / getSessionByHeader / getActiveSession up to the
\* completion of store.get(id)
ReadBegin(kind, args) ==
    /\ CanBegin
    /\ kop' = [kind |-> kind, args |-> args, pc |-> "fetched",
               result |-> RecordOf(db[VaultOwner], OperationId(kind, args)),
               grantedAtCall |-> vhist.granted]
    /\ vhist' = [vhist EXCEPT !.ops = @ + 1]
    /\ UNCHANGED <<chatVars, ratchetVars, uiVars, uCall, reg, vSession>>

\* the same, the code after the fetch: lock check, key read, decryption
ReadFinish ==
    /\ kop.pc = "fetched"
    /\ LET r == ReadRecord(kop.kind, kop.result, vSession)
       IN  kop' = [kind |-> kop.kind, args |-> kop.args,
                   pc |-> IF r.threw = "none" THEN "returned" ELSE "threw",
                   threw |-> r.threw, value |-> r.value, result |-> kop.result,
                   grantedAtCall |-> kop.grantedAtCall, granted |-> vhist.granted,
                   afterWrong |-> vhist.afterWrong, phase |-> vhist.phase,
                   original |-> vhist.original]
    /\ UNCHANGED <<chatVars, ratchetVars, uiVars, uCall, reg, vSession, vhist>>

\* a direct VaultCrypto.encryptValue call
EncryptValueCall(value) ==
    /\ CanBegin
    /\ LET r == EncryptValue(vSession, value, vhist.ops + 1)
       IN  kop' = [kind |-> "encryptValue",
                   pc |-> IF r.threw = "none" THEN "returned" ELSE "threw",
                   threw |-> r.threw, data |-> r.data, granted |-> vhist.granted]
    /\ vhist' = [vhist EXCEPT !.ops = @ + 1]
    /\ UNCHANGED <<chatVars, ratchetVars, uiVars, uCall, reg, vSession>>

\* values handed to VaultCrypto.decryptValue: the verifier of the vault, or
\* text that is not base64
DecryptInputs(t) ==
    {Malformed} \cup (IF HasVault(t) THEN {GetVaultMeta(t).verifier} ELSE {})

\* a direct VaultCrypto.decryptValue call
DecryptValueCall(encrypted) ==
    /\ CanBegin
    /\ LET r == DecryptValue(vSession, encrypted)
       IN  kop' = [kind |-> "decryptValue",
                   pc |-> IF r.threw = "none" THEN "returned" ELSE "threw",
                   threw |-> r.threw, data |-> r.data, granted |-> vhist.granted]
    /\ vhist' = [vhist EXCEPT !.ops = @ + 1]
    /\ UNCHANGED <<chatVars, ratchetVars, uiVars, uCall, reg, vSession>>

NextVault ==
    \/ \E password \in Passwords : InitializeVaultBegin(password)
    \/ InitializeVaultStoreMeta
    \/ \E password \in Passwords : UnlockVaultBegin(password)
    \/ UnlockVaultFinish
    \/ LockVault
    \/ ClearAll(VaultOwner)
    \/ \E c \in StoreCalls : StoreBegin(c.kind, c.args)
    \/ StoreFinish
    \/ \E c \in ReadCalls : ReadBegin(c.kind, c.args)
    \/ ReadFinish
    \/ EncryptValueCall(VaultSessionKey)
    \/ \E encrypted \in DecryptInputs(db[VaultOwner]) : DecryptValueCall(encrypted)

SpecVault == Init /\ [][NextVault]_vars

---------------------------------------------------------------------------
(* Registration machine: the recipient's RegisterDevice component.  The     *)
(* effect starts a register() run on every mount and every change of a      *)
(* dependency and cancels none; each run is cut at the awaits that read or  *)
(* write the key table, the vault or the server.                            *)

RunSlots == 1 .. MaxOverlap

\* a run can be started: a slot is free
CanStartRun ==
    reg.started < MaxRuns /\ \E r \in RunSlots : reg.run[r].pc = "idle"

\* register() from its start to `await supabase.from('profiles').upsert`,
\* past the three gates, in the first free slot
WithRunStarted(run, skippedVault) ==
    LET r == CHOOSE x \in RunSlots :
                 run[x].pc = "idle" /\ \A y \in RunSlots : run[y].pc = "idle" => x <= y
    IN  [run EXCEPT ![r] = [IdleRun EXCEPT !.pc = "hasVault",
                                           !.skippedVault = skippedVault]]

\* KeyStore.storeKey run to its end
StoreKeyWhole(t, id, key, session, nonce) ==
    IF StoreRefused(HasVault(t), session)
    THEN [threw |-> TRUE, t |-> t]
    ELSE [threw |-> FALSE,
          t |-> StoreWrite(t, "storeKey", [id |-> id, key |-> key], HasVault(t),
                           session, nonce)]

\* the pre-key loop of register(), from index i: generatePreKey, storePreKey
RECURSIVE StorePreKeysWhole(_, _, _, _)
StorePreKeysWhole(t, i, entropy, session) ==
    IF i < PreKeyPool
    THEN IF StoreKeyWhole(t, PreKeyId(i), GeneratePreKey(entropy + i + 1), session,
                          entropy + i + 1).threw
         THEN [threw |-> TRUE, t |-> t]
         ELSE StorePreKeysWhole(
                  StoreKeyWhole(t, PreKeyId(i), GeneratePreKey(entropy + i + 1), session,
                                entropy + i + 1).t,
                  i + 1, entropy, session)
    ELSE [threw |-> FALSE, t |-> t]

\* the component mounts (first visit, or a later navigation to
\* /register-device): fresh state, the effect runs
Mount ==
    /\ reg.mounts < MaxMounts
    /\ CanStartRun
    /\ reg' = [reg EXCEPT !.needsVaultSetup = FALSE, !.skippedVault = FALSE,
                          !.mounts = @ + 1, !.started = @ + 1,
                          !.run = WithRunStarted(@, FALSE)]
    /\ UNCHANGED <<chatVars, ratchetVars, uiVars, uCall, vSession, kop, vhist>>

\* a dependency of the effect other than the two flags changes (user,
\* isSupabaseReady, navigate): the effect runs again
EffectRerun ==
    /\ reg.mounts > 0
    /\ ~reg.needsVaultSetup
    /\ CanStartRun
    /\ reg' = [reg EXCEPT !.started = @ + 1,
                          !.run = WithRunStarted(@, reg.skippedVault)]
    /\ UNCHANGED <<chatVars, ratchetVars, uiVars, uCall, vSession, kop, vhist>>

\* the 'Skip for now' button of the vault prompt
SkipVault ==
    /\ reg.needsVaultSetup
    /\ CanStartRun
    /\ reg' = [reg EXCEPT !.skippedVault = TRUE, !.needsVaultSetup = FALSE,
                          !.started = @ + 1, !.run = WithRunStarted(@, TRUE)]
    /\ UNCHANGED <<chatVars, ratchetVars, uiVars, uCall, vSession, kop, vhist>>

\* handleVaultSetup up to `await KeyStore.initializeVault(vaultPassword)`:
\* setNeedsVaultSetup(false) lets the effect run while the vault is made
HandleVaultSetupBegin(password) ==
    /\ reg.needsVaultSetup
    /\ reg.setup = 0
    /\ vhist.inits < MaxSalts
    /\ CanStartRun
    /\ reg' = [reg EXCEPT !.needsVaultSetup = FALSE, !.setup = password,
                          !.started = @ + 1,
                          !.run = WithRunStarted(@, reg.skippedVault)]
    /\ UNCHANGED <<chatVars, ratchetVars, uiVars, uCall, vSession, kop, vhist>>

\* KeyStore.initializeVault of handleVaultSetup, the VaultCrypto.initializeVault
\* call: the salt is drawn, the key derived and cached, the metadata returned
HandleVaultSetupDerive ==
    /\ reg.setup # 0
    /\ reg.pending = Undefined
    /\ LET made == InitializeVaultCrypto(reg.setup, Salt(vhist.inits + 1), nextKey + 1)
       IN  /\ vSession' = made.session
           /\ reg' = [reg EXCEPT !.pending = [salt |-> made.salt,
                                              verifier |-> made.verifier]]
    /\ nextKey' = nextKey + 1
    /\ vhist' = [vhist EXCEPT !.granted = TRUE, !.afterWrong = FALSE, !.inits = @ + 1]
    /\ UNCHANGED <<db, devices, clock, messages, rtPending, msgList, call, usedBundle,
                   recvLog, ratchetVars, uiVars, uCall, kop>>

\* KeyStore.initializeVault of handleVaultSetup, `await this.storeVaultMeta`:
\* the returned metadata is put
HandleVaultSetupFinish ==
    /\ reg.setup # 0
    /\ reg.pending # Undefined
    /\ db' = [db EXCEPT ![VaultOwner] = StoreVaultMeta(db[VaultOwner], reg.pending)]
    /\ vhist' = [vhist EXCEPT !.initialized = TRUE, !.password = reg.setup]
    /\ reg' = [reg EXCEPT !.setup = 0, !.pending = Undefined]
    /\ UNCHANGED <<devices, clock, messages, rtPending, msgList, call, nextKey,
                   usedBundle, recvLog, ratchetVars, uiVars, uCall, vSession, kop>>

\* register() step 2: hasVault, the prompt, the locked-vault redirect
RunCheckVault(r) ==
    /\ reg.run[r].pc = "hasVault"
    /\ reg' = IF ~HasVault(db[VaultOwner]) /\ ~reg.run[r].skippedVault
              THEN [reg EXCEPT !.needsVaultSetup = TRUE, !.run[r] = IdleRun]
              ELSE IF HasVault(db[VaultOwner]) /\ ~IsUnlocked(vSession)
              THEN [reg EXCEPT !.run[r] = IdleRun]
              ELSE [reg EXCEPT !.run[r].pc = "getIdentityKey"]
    /\ UNCHANGED <<chatVars, ratchetVars, uiVars, uCall, vSession, kop, vhist>>

\* register() step 3: getIdentityKey; without a local key a pair is generated
RunGetIdentityKey(r) ==
    /\ reg.run[r].pc = "getIdentityKey"
    /\ LET read == ReadRecord("getKey", RecordOf(db[VaultOwner], IdentityId), vSession)
       IN  IF read.threw # "none"
           THEN /\ reg' = [reg EXCEPT !.run[r] = IdleRun]
                /\ UNCHANGED nextKey
           ELSE IF read.value = Undefined
           THEN /\ reg' = [reg EXCEPT !.run[r].pc = "storeIdentityKey",
                                      !.run[r].identityKey =
                                          GenerateIdentityKeyPair(nextKey + 1)]
                /\ nextKey' = nextKey + 1
           ELSE /\ reg' = [reg EXCEPT !.run[r].pc = "existingDevices",
                                      !.run[r].identityKey = read.value]
                /\ UNCHANGED nextKey
    /\ UNCHANGED <<db, devices, clock, messages, rtPending, msgList, call, usedBundle,
                   recvLog, ratchetVars, uiVars, uCall, vSession, kop, vhist>>

\* register(): storeIdentityKey of the generated pair
RunStoreIdentityKey(r) ==
    /\ reg.run[r].pc = "storeIdentityKey"
    /\ LET stored == StoreKeyWhole(db[VaultOwner], IdentityId, reg.run[r].identityKey,
                                   vSession, nextKey + 1)
       IN  /\ db' = [db EXCEPT ![VaultOwner] = stored.t]
           /\ reg' = IF stored.threw THEN [reg EXCEPT !.run[r] = IdleRun]
                     ELSE [reg EXCEPT !.run[r].pc = "preKeys"]
    /\ nextKey' = nextKey + 1
    /\ UNCHANGED <<devices, clock, messages, rtPending, msgList, call, usedBundle,
                   recvLog, ratchetVars, uiVars, uCall, vSession, kop, vhist>>

\* register() with a local key: getPreKey(0) and the devices query; the run
\* ends when the server has the key and pre-key 0 is there
RunExistingDevices(r) ==
    /\ reg.run[r].pc = "existingDevices"
    /\ LET read == ReadRecord("getKey", RecordOf(db[VaultOwner], PreKeyId(0)), vSession)
           onServer == \E d \in DevicesOf(VaultOwner) :
                           d.public_identity_key = reg.run[r].identityKey.publicKey
       IN  reg' = IF read.threw # "none" THEN [reg EXCEPT !.run[r] = IdleRun]
                  ELSE IF onServer /\ read.value # Undefined
                  THEN [reg EXCEPT !.run[r] = IdleRun]
                  ELSE [reg EXCEPT !.run[r].pc = "preKeys"]
    /\ UNCHANGED <<chatVars, ratchetVars, uiVars, uCall, vSession, kop, vhist>>

\* register(): the loop generating and storing the pre-keys
RunStorePreKeys(r) ==
    /\ reg.run[r].pc = "preKeys"
    /\ LET stored == StorePreKeysWhole(db[VaultOwner], 0, nextKey, vSession)
       IN  /\ db' = [db EXCEPT ![VaultOwner] = stored.t]
           /\ reg' = IF stored.threw THEN [reg EXCEPT !.run[r] = IdleRun]
                     ELSE [reg EXCEPT
                             !.run[r].pc = "insert",
                             !.run[r].preKeyPublics =
                                 [i \in 1 .. PreKeyPool |-> GeneratePreKey(nextKey + i).publicKey]]
    /\ nextKey' = nextKey + PreKeyPool
    /\ UNCHANGED <<devices, clock, messages, rtPending, msgList, call, usedBundle,
                   recvLog, ratchetVars, uiVars, uCall, vSession, kop, vhist>>

\* register(): the user's device rows are deleted and this device inserted;
\* ok = FALSE is a deviceError from the insert
RunInsertDevice(r, ok) ==
    /\ reg.run[r].pc = "insert"
    /\ clock < MaxRuns
    /\ devices' = (devices \ DevicesOf(VaultOwner))
                     \cup (IF ok
                           THEN {[user_id |-> VaultOwner,
                                  public_identity_key |-> reg.run[r].identityKey.publicKey,
                                  public_prekeys |-> reg.run[r].preKeyPublics,
                                  created_at |-> clock + 1]}
                           ELSE {})
    /\ clock' = clock + 1
    /\ reg' = [reg EXCEPT !.run[r] = IdleRun]
    /\ UNCHANGED <<db, messages, rtPending, msgList, call, nextKey, usedBundle,
                   recvLog, ratchetVars, uiVars, uCall, vSession, kop, vhist>>

NextRegister ==
    \/ Mount
    \/ EffectRerun
    \/ SkipVault
    \/ \E password \in Passwords : HandleVaultSetupBegin(password)
    \/ HandleVaultSetupDerive
    \/ HandleVaultSetupFinish
    \/ \E r \in RunSlots : RunCheckVault(r)
    \/ \E r \in RunSlots : RunGetIdentityKey(r)
    \/ \E r \in RunSlots : RunStoreIdentityKey(r)
    \/ \E r \in RunSlots : RunExistingDevices(r)
    \/ \E r \in RunSlots : RunStorePreKeys(r)
    \/ \E r \in RunSlots, ok \in BOOLEAN : RunInsertDevice(r, ok)
    \/ ClearAll(VaultOwner)
    \/ LockVault

SpecRegister == Init /\ [][NextRegister]_vars

---------------------------------------------------------------------------
(* Unlock harness: VaultCrypto.unlockVault on every kind of input *)

\* verifiers a vault may hold or an attacker may put in its place: sealed
\* under any password and salt, with the verifier text or another text, with
\* the nonce prefix altered, or not base64 at all
HarnessVerifiers ==
    LET sealedOnes == {Encrypt(text, DeriveKey(password, salt), 1) :
                          text \in {VERIFIER_PLAINTEXT, "another text"},
                          password \in Passwords, salt \in Salts}
    IN  sealedOnes \cup {[v EXCEPT !.nonce = 2] : v \in sealedOnes} \cup {Malformed}

HarnessSessions ==
    {NoSessionKey} \cup {ExportKey(DeriveKey(password, Salt(1))) : password \in Passwords}

UnlockCall(session, password, saltBase64, verifier) ==
    /\ ~uCall.made
    /\ uCall' = [made |-> TRUE, sessionBefore |-> session, password |-> password,
                 salt |-> saltBase64, verifier |-> verifier,
                 result |-> UnlockVaultCrypto(session, password, saltBase64, verifier)]
    /\ UNCHANGED <<chatVars, ratchetVars, uiVars, vSession, kop, vhist, reg>>

NextUnlock ==
    \E session \in HarnessSessions, password \in Passwords,
       saltBase64 \in Salts \cup {Malformed}, verifier \in HarnessVerifiers :
        UnlockCall(session, password, saltBase64, verifier)

SpecUnlock == Init /\ [][NextUnlock]_vars

---------------------------------------------------------------------------
(* Specifications *)

Environment ==
    \/ \E ok \in BOOLEAN : RegisterDevice(Recipient, ok)
    \/ ClearAll(Recipient)

SendSteps ==
    \/ \E c \in Calls : SendGetActiveSession(c)
    \/ \E c \in Calls : \E fetched \in {LatestDevice(Recipient), Undefined} :
           SendFetchDevice(c, fetched)
    \/ \E c \in Calls : SendEstIdentity(c)
    \/ \E c \in Calls : \E preKeyIndex \in 0 .. PreKeyPool - 1 :
           SendEstBundle(c, preKeyIndex)
    \/ \E c \in Calls : SendStoreActive(c)
    \/ \E c \in Calls : SendStoreByHeader(c)
    \/ \E c \in Calls : SendGetCounter(c)
    \/ \E c \in Calls : SendEncrypt(c)
    \/ \E c \in Calls : SendInsert(c)
    \/ \E c \in Calls : SendThrows(c)

Receives ==
    \/ FetchMessages(Recipient)
    \/ \E i \in 1 .. Len(messages) : RealtimeMessage(Recipient, i)

TamperedReceives ==
    \/ \E i \in 1 .. Len(messages) : \E row \in TamperedRows(messages[i]) :
           FetchTampered(Recipient, i, row)
    \/ \E i \in 1 .. Len(messages) : \E row \in TamperedRows(messages[i]) :
           RealtimeTampered(Recipient, i, row)

\* sendMessage calls may overlap
Next ==
    \/ \E c \in Calls : SendStart(c)
    \/ SendSteps
    \/ Environment
    \/ Receives

Spec == Init /\ [][Next]_vars

\* sendMessage calls never overlap
NextSeq ==
    \/ \E c \in Calls : SendStartAlone(c)
    \/ SendSteps
    \/ Environment
    \/ Receives

SpecSeq == Init /\ [][NextSeq]_vars

\* non-overlapping sends, with one row altered on its way to the receiver
NextTamper ==
    \/ \E c \in Calls : SendStartBeforeTamper(c)
    \/ SendSteps
    \/ Environment
    \/ Receives
    \/ TamperedReceives

SpecTamper == Init /\ [][NextTamper]_vars

\* non-overlapping sends to a peer whose newest device row may carry no
\* pre-keys
NextPool ==
    \/ \E c \in Calls : SendStartAlone(c)
    \/ SendSteps
    \/ Environment
    \/ PeerDeviceWithoutPreKeys(Recipient)

SpecPool == Init /\ [][NextPool]_vars

NextRatchet ==
    \/ \E sharedSecret \in RootSecrets : RatchetInitialize(sharedSecret)
    \/ RatchetSend
    \/ \E n \in 0 .. MaxRatchet, m \in 0 .. MaxRatchet : RatchetSeek(n, m)

SpecRatchet == Init /\ [][NextRatchet]_vars

---------------------------------------------------------------------------
(* Properties *)

Rows == 1 .. Len(messages)

RowHeader(i) == messages[i].ciphertext_header

\* C1: the message key of the (N+1)-th ratchetForSend on a chain started by
\* initializeChain(S) is deriveKeyAtIndex(S, N), and that call reports
\* messageIndex N
C1_SeekAgreesWithChain ==
    rCalls > 0 =>
        /\ rOut.messageKey = DeriveKeyAtIndex(rRoot, rCalls - 1)
        /\ rOut.messageIndex = rCalls - 1

\* the chain has been advanced through every index up to MaxRatchet
C1_Witness ==
    /\ rCalls = MaxRatchet + 1
    /\ rOut.messageIndex = MaxRatchet
    /\ rOut.messageKey # DeriveKeyAtIndex(rRoot, 0)

\* C2: the shared secret establishSession computed against the peer's bundle
\* equals the one deriveSessionFromHeader computes from the header, when the
\* peer holds the private halves of that bundle (pre-key looked up at
\* header.preKeyId)
C2_BothSidesDeriveSameSecret ==
    \A c \in Calls :
        (call[c].session # Undefined /\ KeysMatch(db[Recipient], call[c].session.header))
        => DeriveSessionFromHeader(
               GetIdentityKey(db[Recipient]), call[c].session.header,
               GetPreKey(db[Recipient], call[c].session.header.preKeyId).privateKey)
           = call[c].session.sharedSecret

\* a handshake against the second pre-key of the pool, with the peer still
\* holding the keys of the bundle
C2_Witness ==
    \E c \in Calls :
        /\ call[c].session # Undefined
        /\ call[c].session.header.preKeyId = PreKeyPool - 1
        /\ KeysMatch(db[Recipient], call[c].session.header)

\* C3: a row of the transport whose session was established against keys the
\* recipient holds is shown to the recipient with exactly the text passed to
\* sendMessage, whichever receive path handled it and in whichever order
C3_RecipientReadsWhatWasSent ==
    \A k \in 1 .. Len(msgList[Recipient]) : \A i \in Rows :
        (msgList[Recipient][k].id = messages[i].id
            /\ KeysMatch(db[Recipient], RowHeader(i)))
        => msgList[Recipient][k].content = PlainContent(SentText(messages[i]))

\* the recipient shows two rows of different sessions, the later row first,
\* both as sent
C3_Witness ==
    /\ Len(messages) >= 2
    /\ Len(msgList[Recipient]) >= 2
    /\ msgList[Recipient][1].id = messages[2].id
    /\ msgList[Recipient][2].id = messages[1].id
    /\ RowHeader(1).ephemeralKey # RowHeader(2).ephemeralKey
    /\ KeysMatch(db[Recipient], RowHeader(1))
    /\ KeysMatch(db[Recipient], RowHeader(2))
    /\ msgList[Recipient][1].content = PlainContent(SentText(messages[2]))

\* a call holds a counter value it has read for its session
HasReadCounter(c) == call[c].pc \in {"encrypt", "insert"}

\* C4: two sendMessage calls on one session never hold the same session
\* counter value, and no two rows of one session carry the same messageIndex
C4_OverlappingSendsDistinctIndex ==
    /\ \A c1, c2 \in Calls :
           (c1 # c2 /\ HasReadCounter(c1) /\ HasReadCounter(c2)
               /\ call[c1].header.ephemeralKey = call[c2].header.ephemeralKey)
           => call[c1].messageCounter # call[c2].messageCounter
    /\ \A i, j \in Rows :
           (i # j /\ RowHeader(i).ephemeralKey = RowHeader(j).ephemeralKey)
           => RowHeader(i).messageIndex # RowHeader(j).messageIndex

\* C5: with non-overlapping calls no two rows of the transport carry the same
\* (ephemeralKey, messageIndex), and no two are sealed under the same key
C5_NoIndexTwice ==
    \A i, j \in Rows :
        i # j =>
            /\ ~ (/\ RowHeader(i).ephemeralKey = RowHeader(j).ephemeralKey
                  /\ RowHeader(i).messageIndex = RowHeader(j).messageIndex)
            /\ messages[i].ciphertext.box.key # messages[j].ciphertext.box.key

\* two rows of one session around a call that failed at the insert
C5_Witness ==
    /\ Len(messages) = 2
    /\ RowHeader(1).ephemeralKey = RowHeader(2).ephemeralKey
    /\ \E c \in Calls : call[c].pc = "failed" /\ call[c].failedAt = "insert"

\* rows of the transport sent on the session of this ephemeral key
RowsOfSession(ephemeralKey) == {i \in Rows : RowHeader(i).ephemeralKey = ephemeralKey}

\* C6: while no call is running, the stored counter of every session equals
\* the number of messages sent on it
C6_CounterCountsMessages ==
    (\A c \in Calls : ~InFlight(c)) =>
        \A ek \in DOMAIN usedBundle :
            GetSessionCounter(db[Sender], ek) = Cardinality(RowsOfSession(ek))

\* C7: a sendMessage call that ends in the catch block leaves every stored
\* session counter at the value it had when the call began
C7_FailedSendKeepsCounter ==
    [][\A c \in Calls :
          (InFlight(c) /\ call'[c].pc = "failed")
          => SessionCounters(db'[Sender]) = call[c].startCounters]_vars

\* the cached session's recorded identity key and creation time both equal
\* the fetched device's
RecordedDeviceIsCurrent(activeSession, recipientDevice) ==
    IF activeSession = Undefined THEN FALSE
    ELSE /\ activeSession.peerIdentityKey = recipientDevice.public_identity_key
         /\ activeSession.deviceCreatedAt = recipientDevice.created_at

\* C8: a call that fetched the peer's device reuses the cached session exactly
\* when both recorded values equal the fetched ones; otherwise it runs a
\* handshake and seals the message under a key of the new secret
C8_ReuseOnlyForCurrentDevice ==
    \A c \in Calls :
        (InFlight(c) /\ call[c].recipientDevice # Undefined) =>
            IF RecordedDeviceIsCurrent(call[c].activeSession, call[c].recipientDevice)
            THEN /\ call[c].branch = "reuse"
                 /\ call[c].sessionKey = call[c].activeSession.key
                 /\ call[c].header = call[c].activeSession.header
            ELSE /\ call[c].branch = "handshake"
                 /\ call[c].session # Undefined =>
                       /\ call[c].sessionKey = call[c].session.sharedSecret
                       /\ call[c].header = call[c].session.header
                       /\ call[c].activeSession # Undefined =>
                             call[c].sessionKey # call[c].activeSession.key
                 /\ call[c].ciphertext # Undefined =>
                       call[c].ciphertext.box.key =
                           DeriveKeyAtIndex(call[c].session.sharedSecret,
                                            call[c].messageCounter)

\* a call with a cached session found a newer device and sealed its message
\* under the secret of a fresh handshake
C8_Witness ==
    \E c \in Calls :
        /\ call[c].pc = "insert"
        /\ call[c].branch = "handshake"
        /\ call[c].activeSession # Undefined
        /\ call[c].ciphertext.box.key # DeriveKeyAtIndex(call[c].activeSession.key, 0)

C10_AlteredRowNeverDisplayed ==
    (recvLog.path # "none" /\ recvLog.origOK)
    => recvLog.content.kind # "plaintext"

\* the verifier is the verifier text sealed under the key of this password
\* and salt
VerifierMatches(password, saltBase64, verifier) ==
    /\ saltBase64 # Malformed
    /\ verifier # Malformed
    /\ verifier.sealed.key = DeriveKey(password, saltBase64)
    /\ verifier.sealed.nonce = verifier.nonce
    /\ verifier.sealed.text = VERIFIER_PLAINTEXT

\* C17: VaultCrypto.unlockVault never throws; on every failing input (wrong
\* password, altered verifier, verifier of another text, malformed salt or
\* verifier) it returns false and leaves the session slot as it was, and it
\* returns true only for the matching password, salt and verifier
C17_UnlockFailsUniformly ==
    uCall.made =>
        /\ uCall.result.threw = "none"
        /\ uCall.result.returned = VerifierMatches(uCall.password, uCall.salt, uCall.verifier)
        /\ ~uCall.result.returned =>
               uCall.result = [returned |-> FALSE, threw |-> "none",
                               session |-> uCall.sessionBefore]

\* an unlock with a malformed salt on a locked vault returned false
C17_Witness ==
    /\ uCall.made
    /\ uCall.salt = Malformed
    /\ uCall.sessionBefore = NoSessionKey
    /\ ~uCall.result.returned
    /\ uCall.result.session = NoSessionKey

---------------------------------------------------------------------------
(* Properties of the vault *)

\* a read operation that has run to its end
ReadOver ==
    kop.kind \in {"getKey", "getSession", "getSessionByHeader", "getActiveSession"}
    /\ kop.pc \in {"returned", "threw"}

C12_WrongPasswordBlocksReads ==
    /\ (kop.kind = "unlockVault" /\ kop.pc = "returned" /\ kop.wrongPassword)
           => ~kop.result
    /\ (ReadOver /\ kop.afterWrong /\ kop.result # Undefined /\ kop.result.encrypted)
           => kop.pc = "threw"

\* C13: from a lockVault (or the clearAll that runs it) until the next
\* initializeVault or successful unlockVault, every VaultCrypto.encryptValue
\* and VaultCrypto.decryptValue call throws 'Vault is locked' and hands back
\* no data.  kop.granted is false exactly in that interval and before the
\* first key was ever cached.
C13_LockedVaultRefusesValues ==
    (kop.kind \in {"encryptValue", "decryptValue"} /\ ~kop.granted)
        => (kop.pc = "threw" /\ kop.threw = "Vault is locked" /\ kop.data = NoString)

\* a value call refused after an identity key was stored and the vault locked
C13_Witness ==
    /\ kop.kind = "decryptValue" /\ ~kop.granted
    /\ kop.threw = "Vault is locked"
    /\ vhist.phase = "locked" /\ ~vhist.granted

\* C14: getKey, getSession, getSessionByHeader and getActiveSession reaching
\* an encrypted record while the vault is locked throw the vault-locked error
\* of their kind and return nothing, also when lockVault ran after the record
\* was fetched and before the decryption step.
C14_LockedVaultRefusesReads ==
    (ReadOver /\ kop.result # Undefined /\ kop.result.encrypted /\ ~kop.granted)
        => (kop.pc = "threw" /\ kop.threw = ReadLockedError(kop.kind)
            /\ kop.value = Undefined)

\* the record was fetched under an unlocked vault, the vault locked before
\* the decryption step
C14_Witness ==
    /\ ReadOver /\ kop.result # Undefined /\ kop.result.encrypted
    /\ kop.grantedAtCall /\ ~kop.granted
    /\ kop.pc = "threw"

\* C15: hasVault() is false until a KeyStore.initializeVault has completed,
\* true from then on whatever lockVault and unlockVault calls follow, with
\* the right or a wrong password, and false again only after clearAll.
C15_HasVaultFollowsInitialize ==
    HasVault(db[VaultOwner]) = vhist.initialized

\* the vault still exists after a lockVault and a refused unlockVault
C15_Witness ==
    /\ HasVault(db[VaultOwner])
    /\ vhist.phase = "locked" /\ vhist.afterWrong
    /\ ~IsUnlocked(vSession)

\* every key a vault of the model can derive, as CryptoKey and as exported
VaultKeys ==
    {DeriveKey(password, salt) : password \in Passwords, salt \in Salts}
    \cup {ExportKey(DeriveKey(password, salt)) : password \in Passwords, salt \in Salts}

\* the secrets handed to the store operations
StoredSecrets ==
    {IF c.kind = "storeKey" THEN c.args.key.privateKey ELSE c.args.sessionKey :
        c \in StoreCalls}

\* a record of the key table holds no derived key: the vault metadata is a
\* salt and the sealed verifier text; an encrypted record holds, sealed, the
\* secret its store call was given, an unencrypted record that secret itself
HoldsNoKey(id, record) ==
    IF id = VaultMetaId
    THEN /\ DOMAIN record = {"salt", "verifier"}
         /\ record.salt \in Salts
         /\ DOMAIN record.verifier = {"nonce", "sealed"}
         /\ record.verifier.sealed.text = VERIFIER_PLAINTEXT
    ELSE IF record.encrypted
    THEN /\ DOMAIN SecretOf(IF id = IdentityId THEN "getKey" ELSE "getSession", record)
                = {"nonce", "sealed"}
         /\ SecretOf(IF id = IdentityId THEN "getKey" ELSE "getSession", record).sealed.text
                \in StoredSecrets
    ELSE SecretOf(IF id = IdentityId THEN "getKey" ELSE "getSession", record)
                \in StoredSecrets

\* C16: the derived key lives only in the session slot: the slot is filled
\* only if an initializeVault or a successful unlockVault happened with no
\* lockVault or clearAll since, and no record of the persisted key table
\* holds the key.
C16_KeyOnlyInSessionSlot ==
    /\ IsUnlocked(vSession) => (vhist.granted /\ vSession \in VaultKeys)
    /\ \A id \in DOMAIN db[VaultOwner] : HoldsNoKey(id, db[VaultOwner][id])

\* the slot is filled while the table holds the vault metadata and an
\* encrypted record
C16_Witness ==
    /\ IsUnlocked(vSession)
    /\ HasVault(db[VaultOwner])
    /\ \E id \in DOMAIN db[VaultOwner] :
          id # VaultMetaId /\ db[VaultOwner][id].encrypted

\* a store operation that has written its record
StoreOver ==
    kop.kind \in {"storeKey", "storeSession", "storeSessionByHeader", "storeActiveSession"}
    /\ kop.pc = "returned"

\* C18: a record written by storeKey, storeSession, storeSessionByHeader or
\* storeActiveSession has encrypted=true exactly when the vault metadata
\* existed when the operation was called, and encrypted=false exactly when
\* it did not.
C18_RecordModeFollowsVault ==
    StoreOver => (kop.written.encrypted = kop.hasVault)

\* C19: whenever hasVault() is true, every identity, pre-key and session
\* record of the key table is encrypted, in whatever order keys were stored
\* and the vault was initialized.
C19_NoPlaintextUnderVault ==
    HasVault(db[VaultOwner])
        => \A id \in DOMAIN db[VaultOwner] \ {VaultMetaId} : db[VaultOwner][id].encrypted

\* C20: whatever registration runs happen (a first one, a re-registration,
\* overlapping runs of the effect), no step replaces the stored identity key
\* pair by a different pair; only clearAll removes it.
C20_IdentityNeverReplaced ==
    [][(IdentityId \in DOMAIN db[VaultOwner] /\ IdentityId \in DOMAIN db'[VaultOwner])
          => db'[VaultOwner][IdentityId].publicKey = db[VaultOwner][IdentityId].publicKey]_vars

---------------------------------------------------------------------------
(* Properties of the pure crypto layers *)

\* C21: with a collision-free hash, deriveKeyAtIndex(S, N) and
\* deriveKeyAtIndex(S, M) differ for every root secret S and all indices
\* N # M.
C21_DistinctIndexDistinctKey ==
    (rSeek.made /\ rSeek.n # rSeek.m) => rSeek.keyN # rSeek.keyM

\* the two ends of the index range were derived on one root
C21_Witness ==
    /\ rSeek.made /\ rSeek.n = 0 /\ rSeek.m = MaxRatchet
    /\ rSeek.keyN # rSeek.keyM
    /\ rSeek.keyM = DeriveKeyAtIndex(rRoot, MaxRatchet)

---------------------------------------------------------------------------
(* Properties of the receive paths, the store operations and the send *)

\* C23: on the history fetch and in the realtime handler, a message whose
\* decryption failed authentication is never rendered as the
\* '[Encrypted Message]' placeholder, which is what a message with no
\* session key available is rendered as.
C23_AuthFailureDistinctFromNoKey ==
    (recvLog.path # "none" /\ recvLog.outcome = "authFailure")
        => recvLog.content # PlaceholderContent

\* C24: a step of storeKey, storeSession, storeSessionByHeader or
\* storeActiveSession taken while the vault metadata exists and the vault is
\* locked (the call itself, or the write of a call whose lock check passed
\* before lockVault) throws the vault-locked error and leaves every record
\* of the key table as it was.
C24_LockedStoreLeavesRecords ==
    [][(/\ \/ vhist'.ops # vhist.ops
           \/ kop.pc = "openDB" /\ kop'.pc # "openDB"
        /\ kop'.kind \in {"storeKey", "storeSession", "storeSessionByHeader",
                          "storeActiveSession"}
        /\ HasVault(db[VaultOwner])
        /\ ~IsUnlocked(vSession))
          => (/\ kop'.pc = "threw"
              /\ kop'.threw = StoreLockedError(kop'.kind)
              /\ db' = db)]_vars

\* C25: the peerIdentityKey and deviceCreatedAt stored with the sender's
\* active session are the identity key and creation time of the peer bundle
\* from which X3DH.establishSession derived that session's secret, also when
\* the peer registers again between sendMessage's device fetch and the
\* bundle fetch inside establishSession.
C25_ActiveSessionNamesItsBundle ==
    ActiveSessionId(Recipient) \in DOMAIN db[Sender] =>
        LET stored == db[Sender][ActiveSessionId(Recipient)]
            bundle == usedBundle[stored.header.ephemeralKey]
        IN  /\ stored.peerIdentityKey = bundle.identity
            /\ stored.deviceCreatedAt = bundle.created_at

\* the key unlockVault caches when given the password of the stored
\* metadata: the key derived from the stored salt, under which the stored
\* verifier is sealed
StoredVaultKey(t) == GetVaultMeta(t).verifier.sealed.key

\* C26: whenever the vault is unlocked and the vault metadata exists, the
\* cached session key is the key derived from the stored salt, whatever the
\* interleaving of initializeVault (repeated ones included), lockVault and
\* clearAll; and so every encrypted key record is sealed under the key that
\* a later unlock with the right password caches again.
C26_SessionKeyFromStoredSalt ==
    (HasVault(db[VaultOwner]) /\ IsUnlocked(vSession))
        => /\ vSession[3] = GetVaultMeta(db[VaultOwner]).salt
           /\ ImportKey(vSession) = StoredVaultKey(db[VaultOwner])
           /\ \A id \in DOMAIN db[VaultOwner] \ {VaultMetaId} :
                  db[VaultOwner][id].encrypted
                      => db[VaultOwner][id].privateKey.sealed.key
                             = StoredVaultKey(db[VaultOwner])

\* the newest device row of the vault owner carries the local identity public
\* key and a full pre-key pool whose i-th entry is the public half of the
\* local record prekey:i
BundleMatchesLocal ==
    LET t == db[VaultOwner]
        bundle == LatestDevice(VaultOwner)
    IN  /\ bundle # Undefined
        /\ IdentityId \in DOMAIN t
        /\ bundle.public_identity_key = t[IdentityId].publicKey
        /\ Len(bundle.public_prekeys) = PreKeyPool
        /\ \A i \in 0 .. PreKeyPool - 1 :
               /\ PreKeyId(i) \in DOMAIN t
               /\ bundle.public_prekeys[i + 1] = t[PreKeyId(i)].publicKey

\* run r of register() reaches setStatus('success') in this step: the device
\* insert returned no error, or the device was found registered
ReportsSuccess(r) ==
    \/ /\ reg.run[r].pc = "insert"
       /\ reg'.run[r].pc = "idle"
       /\ \E d \in devices' : d.user_id = VaultOwner /\ d.created_at = clock'
    \/ /\ reg.run[r].pc = "existingDevices"
       /\ reg'.run[r].pc = "idle"
       /\ ReadRecord("getKey", RecordOf(db[VaultOwner], PreKeyId(0)), vSession).threw
              = "none"

\* C27: whenever a run of register() reports success, the newest device
\* bundle published for the user carries the local identity public key and
\* a full pool of pre-keys, the i-th being the public half of the local
\* record prekey:i, also when runs overlap or a server write fails.
C27_SuccessMeansBundleMatchesLocal ==
    [][(\E r \in RunSlots : ReportsSuccess(r)) => BundleMatchesLocal']_vars

\* C28: when sendMessage has written its row, getSessionByHeader of the
\* row's ephemeralKey returns in the sender's key store the shared secret
\* the message was encrypted under, and the sender's history fetch decrypts
\* the row to the text passed to sendMessage.
C28_SenderReadsOwnMessage ==
    [][\A c \in Calls :
         (call[c].pc = "insert" /\ call'[c].pc = "done")
         => LET row == messages'[Len(messages')]
            IN  /\ GetSessionByHeader(db'[Sender], row.ciphertext_header.ephemeralKey)
                       = call[c].sessionKey
                /\ FetchDecrypt(db'[Sender], row, Sender).content
                       = PlainContent(call[c].text)]_vars

\* the newest device row of the peer carries no pre-keys
PeerPoolEmpty ==
    /\ LatestDevice(Recipient) # Undefined
    /\ Len(LatestDevice(Recipient).public_prekeys) = 0

\* C29: when the peer's newest bundle has an empty pre-key pool,
\* establishSession throws; the sendMessage call that ran it has stored no
\* active session, no session by header and no counter, writes no message,
\* and its optimistic message is removed from the list.
C29_EmptyPoolSendLeavesNoTrace ==
    [][\A c \in Calls :
         /\ call[c].pc \in {"getActiveSession", "fetchDevice", "estIdentity", "estBundle"}
                => (db'[Sender] = db[Sender] /\ messages' = messages)
         /\ (call[c].pc = "estBundle" /\ call'[c] # call[c] /\ PeerPoolEmpty)
                => /\ call'[c].pc = "failed"
                   /\ call'[c].failedAt = "noPreKeys"
                   /\ \A k \in 1 .. Len(msgList'[Sender]) :
                          msgList'[Sender][k].id # TempId(c)]_vars

\* a send failed on an empty pool: the sender's store has no session and no
\* counter, no row was written, the list is empty again
C29_Witness ==
    \E c \in Calls :
        /\ call[c].pc = "failed" /\ call[c].failedAt = "noPreKeys"
        /\ PeerPoolEmpty
        /\ DOMAIN db[Sender] = {IdentityId}
        /\ messages = <<>>
        /\ msgList[Sender] = <<>>

\* the recipient holds no session for the ephemeralKey of row i and no
\* pre-key record for the pre-key id its header names
NoKeyForRow(i) ==
    /\ GetSessionByHeader(db[Recipient], RowHeader(i).ephemeralKey) = NoString
    /\ GetPreKey(db[Recipient], PreKeyIdOrZero(RowHeader(i))) = Undefined

\* the recipient's list shows row i with this content
ShownAs(list, i, content) ==
    \E k \in 1 .. Len(list) : list[k].id = messages[i].id /\ list[k].content = content

\* this step is the recipient's history fetch (the list is rebuilt)
FetchStep == rtPending' = rtPending /\ msgList'[Recipient] # msgList[Recipient]

\* this step is the recipient's realtime handler adding row i to the list
RealtimeStep(i) ==
    /\ i \in rtPending[Recipient] /\ i \notin rtPending'[Recipient]
    /\ \A k \in 1 .. Len(msgList[Recipient]) : msgList[Recipient][k].id # messages[i].id

\* C30: a row whose header names a pre-key id with no local record, received
\* while no session is cached for its ephemeralKey, leaves the key store
\* without a session for that ephemeralKey, raises no error on either
\* receive path and is shown as the '[Encrypted Message]' placeholder.
C30_MissingPreKeyShowsPlaceholder ==
    [][\A i \in Rows :
         /\ (NoKeyForRow(i) /\ FetchStep)
                => /\ FetchDecrypt(db[Recipient], messages[i], Recipient).outcome = "noKey"
                   /\ SessionByKeyId(RowHeader(i).ephemeralKey) \notin DOMAIN db'[Recipient]
                   /\ ShownAs(msgList'[Recipient], i, PlaceholderContent)
         /\ (NoKeyForRow(i) /\ RealtimeStep(i))
                => /\ RealtimeDecrypt(db[Recipient], messages[i], Recipient).outcome = "noKey"
                   /\ SessionByKeyId(RowHeader(i).ephemeralKey) \notin DOMAIN db'[Recipient]
                   /\ ShownAs(msgList'[Recipient], i, PlaceholderContent)]_vars

\* the recipient, whose key store was reset after the row was sent, shows
\* the row as the placeholder and holds neither pre-key nor session for it
C30_Witness ==
    \E i \in Rows :
        /\ NoKeyForRow(i)
        /\ ShownAs(msgList[Recipient], i, PlaceholderContent)
        /\ i \notin rtPending[Recipient]

---------------------------------------------------------------------------
(* Properties of the history fetch as a whole *)

\* what a row that was not decrypted is shown as
Placeholders == {PlaceholderContent, UnavailableContent, MalformedContent}

---------------------------------------------------------------------------
(* useChat: the active conversation and the writers of its message list *)

Conversations == 1 .. MaxConversations

\* the rows of a conversation, in created_at order, as list entries (conv is
\* the conversation the entry belongs to)
RECURSIVE RowsOfConversation(_, _)
RowsOfConversation(rows, conv) ==
    IF rows = <<>> THEN <<>>
    ELSE IF Head(rows).conv = conv
         THEN <<Head(rows)>> \o RowsOfConversation(Tail(rows), conv)
         ELSE RowsOfConversation(Tail(rows), conv)

\* setActiveConversationId(conv) and the effects that follow the render: the
\* ref is updated and a fetchMessages run starts; runs already in flight are
\* left alone
SelectConversation(conv) ==
    /\ view.selects < MaxSelects
    /\ conv # view.active
    /\ \E s \in 1 .. MaxFetches :
           /\ view.fetch[s].pc = "idle"
           /\ \A o \in 1 .. MaxFetches : view.fetch[o].pc = "idle" => s <= o
           /\ view' = [view EXCEPT !.active = conv, !.selects = @ + 1,
                                   !.fetch[s] = [pc |-> "query", conv |-> conv,
                                                 data |-> <<>>]]
    /\ UNCHANGED <<chatVars, ratchetVars, vaultVars, unlockUi, peerUi, callUi>>

\* fetchMessages: the messages query of the run's conversation returns
FetchQuery(s) ==
    /\ view.fetch[s].pc = "query"
    /\ view' = [view EXCEPT !.fetch[s].pc = "decrypt",
                            !.fetch[s].data =
                                RowsOfConversation(view.rows, view.fetch[s].conv)]
    /\ UNCHANGED <<chatVars, ratchetVars, vaultVars, unlockUi, peerUi, callUi>>

\* fetchMessages: the loop is over, setMessages(decryptedMessages)
FetchSetMessages(s) ==
    /\ view.fetch[s].pc = "decrypt"
    /\ view' = [view EXCEPT !.list = view.fetch[s].data, !.fetch[s] = IdleFetch]
    /\ UNCHANGED <<chatVars, ratchetVars, vaultVars, unlockUi, peerUi, callUi>>

\* a peer inserts a row into a conversation; its INSERT event is on its way
PeerInsert(conv) ==
    /\ Len(view.rows) < MaxViewRows
    /\ LET row == [id |-> Len(view.rows) + 1, conv |-> conv]
       IN  view' = [view EXCEPT !.rows = Append(@, row), !.events = @ \cup {row}]
    /\ UNCHANGED <<chatVars, ratchetVars, vaultVars, unlockUi, peerUi, callUi>>

\* the INSERT handler of global_messages up to the start of the async block:
\* a row of another conversation only raises that conversation's unread count
RealtimeEvent(row) ==
    /\ row \in view.events
    /\ view' = [view EXCEPT !.events = @ \ {row},
                            !.rt = IF row.conv = view.active THEN @ \cup {row} ELSE @]
    /\ UNCHANGED <<chatVars, ratchetVars, vaultVars, unlockUi, peerUi, callUi>>

\* the async block is over: setMessages(prev => prev.some(...) ? prev : [...prev, m])
RealtimeSetMessages(row) ==
    /\ row \in view.rt
    /\ view' = [view EXCEPT !.rt = @ \ {row},
                            !.list = IF \E k \in 1 .. Len(@) : @[k].id = row.id THEN @
                                     ELSE Append(@, row)]
    /\ UNCHANGED <<chatVars, ratchetVars, vaultVars, unlockUi, peerUi, callUi>>

NextView ==
    \/ \E conv \in Conversations : SelectConversation(conv)
    \/ \E s \in 1 .. MaxFetches : FetchQuery(s)
    \/ \E s \in 1 .. MaxFetches : FetchSetMessages(s)
    \/ \E conv \in Conversations : PeerInsert(conv)
    \/ \E row \in view.events : RealtimeEvent(row)
    \/ \E row \in view.rt : RealtimeSetMessages(row)

SpecView == Init /\ [][NextView]_vars

\* C32: the message list shows only rows of the active conversation: a
\* history fetch or a realtime decryption that was in flight when the active
\* conversation changed never writes rows of the previous conversation into
\* the list.
C32_StaleResultNeverWritten ==
    [][/\ \A s \in 1 .. MaxFetches :
              (view.fetch[s].pc = "decrypt" /\ view'.fetch[s].pc = "idle")
                  => \A k \in 1 .. Len(view'.list) : view'.list[k].conv = view.active
       /\ \A row \in view.rt :
              (row \notin view'.rt /\ view'.list # view.list)
                  => row.conv = view.active]_vars

----------------------------------------------------------------------------
(* Unlock machine: the recipient's VaultUnlock component, shown while a     *)
(* vault exists and is locked.  handleUnlock is cut at the awaits of        *)
(* KeyStore.unlockVault; the vault is made, locked and cleared beside it.   *)

\* variant: the limit is passed only above MAX_ATTEMPTS
AttemptsExhaustedLate(storedAttempts) == storedAttempts > MAX_ATTEMPTS

\* handleUnlock: `if (storedAttempts >= MAX_ATTEMPTS)`
AttemptsExhausted(storedAttempts) == storedAttempts >= MAX_ATTEMPTS

\* ChatLayout.checkRegistration: VaultUnlock is rendered while the vault
\* exists and is locked
VaultUnlockShown == HasVault(db[VaultOwner]) /\ ~IsUnlocked(vSession)

\* handleUnlock up to `await KeyStore.unlockVault(password)`: the count is
\* read from the 'vault_attempts' item; at the limit the call returns
\* with the error set, otherwise isUnlocking is set and unlockVault starts
HandleUnlockBegin(password) ==
    /\ VaultUnlockShown
    /\ ~unlockUi.isUnlocking
    /\ unlockUi.tries < MaxUnlockTries
    /\ unlockUi' =
         IF AttemptsExhausted(unlockUi.stored)
         THEN [unlockUi EXCEPT !.password = password, !.outcome = "refused",
                               !.storedAttempts = unlockUi.stored,
                               !.tries = @ + 1]
         ELSE [unlockUi EXCEPT !.password = password, !.outcome = "pending",
                               !.storedAttempts = unlockUi.stored,
                               !.isUnlocking = TRUE, !.meta = Undefined,
                               !.tries = @ + 1]
    /\ UNCHANGED <<chatVars, ratchetVars, vaultVars, view, peerUi, callUi>>

\* KeyStore.unlockVault, `const meta = await this.getVaultMeta()`; with no
\* metadata it throws and handleUnlock's catch and finally run
HandleUnlockReadMeta ==
    /\ unlockUi.isUnlocking /\ unlockUi.outcome = "pending"
    /\ unlockUi' =
         IF HasVault(db[VaultOwner])
         THEN [unlockUi EXCEPT !.outcome = "unlock",
                               !.meta = GetVaultMeta(db[VaultOwner])]
         ELSE [unlockUi EXCEPT !.outcome = "threw", !.isUnlocking = FALSE]
    /\ UNCHANGED <<chatVars, ratchetVars, vaultVars, view, peerUi, callUi>>

\* handleUnlock from the VaultCrypto.unlockVault call on: success removes
\* the item, failure stores storedAttempts + 1 and empties the password
HandleUnlockFinish ==
    /\ unlockUi.isUnlocking /\ unlockUi.outcome = "unlock"
    /\ LET r == UnlockVaultCrypto(vSession, unlockUi.password,
                                  unlockUi.meta.salt, unlockUi.meta.verifier)
       IN  /\ vSession' = r.session
           /\ unlockUi' =
                IF r.returned
                THEN [unlockUi EXCEPT !.stored = 0, !.outcome = "success",
                                      !.isUnlocking = FALSE]
                ELSE [unlockUi EXCEPT !.stored = unlockUi.storedAttempts + 1,
                                      !.outcome = "failure", !.password = 0,
                                      !.isUnlocking = FALSE,
                                      !.failedIn = vhist.inits]
           /\ vhist' = [vhist EXCEPT
                          !.granted = @ \/ r.returned,
                          !.afterWrong = ~r.returned,
                          !.phase = IF r.returned /\ @ = "locked" THEN "reopened" ELSE @]
    /\ UNCHANGED <<chatVars, ratchetVars, view, peerUi, callUi, uCall, kop, reg>>

NextLock ==
    \/ \E password \in Passwords : InitializeVaultBegin(password)
    \/ InitializeVaultStoreMeta
    \/ LockVault
    \/ ClearAll(VaultOwner)
    \/ \E password \in Passwords : HandleUnlockBegin(password)
    \/ HandleUnlockReadMeta
    \/ HandleUnlockFinish

SpecLock == Init /\ [][NextLock]_vars

\* the handleUnlock call that starts in this step
UnlockCallStarts == unlockUi'.tries # unlockUi.tries

\* the handleUnlock call that ends in this step after unlockVault ran
UnlockCallEnds == unlockUi.isUnlocking /\ ~unlockUi'.isUnlocking

\* a vault made after a reset holds, every failed attempt recorded dates
\* from before it was made, and the password is the one it was made with
NewVaultPassword(password) ==
    /\ vhist.inits >= 2 /\ vhist.initialized
    /\ unlockUi.failedIn < vhist.inits
    /\ password = vhist.password

\* C33: after a reset through forgot-password (clearAll) and the making of
\* a new vault, handleUnlock with the new vault's password calls
\* unlockVault and the vault is unlocked, whatever count of failed attempts
\* was recorded before the reset
C33_NewVaultUnlocksAfterReset ==
    [][/\ (UnlockCallStarts /\ NewVaultPassword(unlockUi'.password))
              => unlockUi'.outcome = "pending"
       /\ (UnlockCallEnds /\ unlockUi.outcome = "unlock"
              /\ NewVaultPassword(unlockUi.password)
              /\ unlockUi.meta = GetVaultMeta(db[VaultOwner]))
              => (unlockUi'.outcome = "success" /\ IsUnlocked(vSession'))]_vars

\* C34: with MAX_ATTEMPTS failed attempts recorded handleUnlock refuses
\* without calling KeyStore.unlockVault; a failed attempt raises the
\* recorded count by exactly one, a success sets it to zero, and nothing
\* else changes it
C34_LockoutAfterMaxAttempts ==
    [][/\ (UnlockCallStarts /\ unlockUi.stored >= MAX_ATTEMPTS)
              => /\ unlockUi'.outcome = "refused"
                 /\ ~unlockUi'.isUnlocking
                 /\ unlockUi'.stored = unlockUi.stored
                 /\ vSession' = vSession
       /\ (UnlockCallEnds /\ unlockUi'.outcome = "failure")
              => unlockUi'.stored = unlockUi.stored + 1
       /\ (UnlockCallEnds /\ unlockUi'.outcome = "success")
              => unlockUi'.stored = 0
       /\ (unlockUi'.stored # unlockUi.stored)
              => (UnlockCallEnds /\ unlockUi'.outcome \in {"failure", "success"})
       /\ unlockUi'.stored <= MAX_ATTEMPTS]_vars

C34_Witness ==
    /\ unlockUi.stored = MAX_ATTEMPTS
    /\ unlockUi.outcome = "refused"
    /\ unlockUi.tries > MAX_ATTEMPTS

\* KeyStore.clearAll completes in this step: the only step that empties the
\* key table
ClearAllCompletes ==
    DOMAIN db[VaultOwner] # {} /\ DOMAIN db'[VaultOwner] = {}

\* a store operation that saw the vault at its first check is still before
\* its put while the table is already cleared: clearAll ran while it was
\* in flight
StoreInFlightAcrossClear ==
    kop.pc = "openDB" /\ kop.hasVault /\ DOMAIN db[VaultOwner] = {}

\* C35: after clearAll completes the key table holds no record and the
\* vault is locked: hasVault() and isVaultUnlocked() are false, every read
\* finds nothing and every session counter is 0; and a store operation
\* that was in flight while clearAll ran leaves the table empty
C35_ClearAllLeavesNothing ==
    [][/\ ClearAllCompletes
              => /\ ~HasVault(db'[VaultOwner])
                 /\ ~IsUnlocked(vSession')
                 /\ \A c \in ReadCalls :
                        RecordOf(db'[VaultOwner], OperationId(c.kind, c.args)) = Undefined
                 /\ GetSessionCounter(db'[VaultOwner], VaultHeader.ephemeralKey) = 0
       /\ StoreInFlightAcrossClear => DOMAIN db'[VaultOwner] = {}]_vars

----------------------------------------------------------------------------
(* Peer machine: the effect of useCall that makes the PeerJS peer.  A run   *)
(* of the effect is a generation; its closure variable isMounted is true    *)
(* for the latest generation until the cleanup runs.                        *)

PeerErrorTypes == {"unavailable-id", "server-error"}

\* variant: an id that is taken is retried whatever the attempt
MayRetryAlways(type, attempt) == type = "unavailable-id"

\* newPeer.on('error'): `err.type === 'unavailable-id' && attempt < 3`
MayRetry(type, attempt) == type = "unavailable-id" /\ attempt < 3

\* isMounted as the handlers of peer i see it
ClosureMounted(p, i) == p.mounted /\ p.peers[i].gen = p.gen

\* peer.destroy()
DestroyPeer(peers, i) ==
    IF i = 0 THEN peers ELSE [peers EXCEPT ![i].status = "destroyed"]

\* createPeer(attempt): nothing when unmounted; otherwise the peer in
\* peerRef is destroyed, a new Peer is made and kept in peerRef and `peer`
CreatePeer(p, attempt) ==
    IF ~p.mounted
    THEN p
    ELSE LET made == Append(DestroyPeer(p.peers, p.peerRef),
                            [gen |-> p.gen, attempt |-> attempt, status |-> "pending"])
         IN  [p EXCEPT !.peers = made, !.peerRef = Len(made), !.peer = Len(made)]

\* the effect runs (mount, or a change of user): isMounted = true, createPeer(0)
PeerEffect ==
    /\ ~peerUi.mounted
    /\ peerUi.gen < MaxHookMounts
    /\ Len(peerUi.peers) < MaxPeers
    /\ peerUi' = CreatePeer([peerUi EXCEPT !.gen = @ + 1, !.mounted = TRUE], 0)
    /\ UNCHANGED <<chatVars, ratchetVars, vaultVars, view, unlockUi, callUi>>

\* the effect's cleanup: isMounted = false, the retry timer is cleared, the
\* peer in peerRef destroyed
PeerEffectCleanup ==
    /\ peerUi.mounted
    /\ peerUi' = [peerUi EXCEPT !.mounted = FALSE, !.retry = 0,
                                !.peers = DestroyPeer(@, peerUi.peerRef),
                                !.peerRef = 0]
    /\ UNCHANGED <<chatVars, ratchetVars, vaultVars, view, unlockUi, callUi>>

\* newPeer.on('open')
PeerOpen(i) ==
    /\ i \in 1 .. Len(peerUi.peers)
    /\ peerUi.peers[i].status = "pending"
    /\ peerUi' = IF ClosureMounted(peerUi, i)
                 THEN [peerUi EXCEPT !.peers[i].status = "open", !.peerReady = TRUE]
                 ELSE [peerUi EXCEPT !.peers = DestroyPeer(@, i)]
    /\ UNCHANGED <<chatVars, ratchetVars, vaultVars, view, unlockUi, callUi>>

\* newPeer.on('disconnected')
PeerDisconnected(i) ==
    /\ i \in 1 .. Len(peerUi.peers)
    /\ peerUi.peers[i].status = "open"
    /\ peerUi' = [peerUi EXCEPT !.peers[i].status = "disconnected",
                                !.peerReady = IF ClosureMounted(peerUi, i)
                                              THEN FALSE ELSE @]
    /\ UNCHANGED <<chatVars, ratchetVars, vaultVars, view, unlockUi, callUi>>

\* newPeer.on('error') for an error that ends the peer: a taken id is
\* retried while MayRetry holds and the closure is mounted (the peer is
\* destroyed and the retry timer set); any other case is only logged
PeerErrorEvent(i, type) ==
    /\ i \in 1 .. Len(peerUi.peers)
    /\ peerUi.peers[i].status = "pending"
    /\ peerUi' = IF MayRetry(type, peerUi.peers[i].attempt) /\ ClosureMounted(peerUi, i)
                 THEN [peerUi EXCEPT !.peers = DestroyPeer(@, i),
                                     !.retry = peerUi.peers[i].attempt + 1]
                 ELSE [peerUi EXCEPT !.peers[i].status = "failed"]
    /\ UNCHANGED <<chatVars, ratchetVars, vaultVars, view, unlockUi, callUi>>

\* the retry timer fires after its delay: initAttemptRef is set and
\* createPeer(attempt + 1) runs
RetryFire ==
    /\ peerUi.retry # 0
    /\ Len(peerUi.peers) < MaxPeers
    /\ peerUi' = IF peerUi.mounted
                 THEN CreatePeer([peerUi EXCEPT !.retry = 0,
                                                !.initAttemptRef = peerUi.retry],
                                 peerUi.retry)
                 ELSE [peerUi EXCEPT !.retry = 0]
    /\ UNCHANGED <<chatVars, ratchetVars, vaultVars, view, unlockUi, callUi>>

NextPeer ==
    \/ PeerEffect
    \/ PeerEffectCleanup
    \/ \E i \in 1 .. MaxPeers : PeerOpen(i)
    \/ \E i \in 1 .. MaxPeers : PeerDisconnected(i)
    \/ \E i \in 1 .. MaxPeers, type \in PeerErrorTypes : PeerErrorEvent(i, type)
    \/ RetryFire

SpecPeer == Init /\ [][NextPeer]_vars

\* a Peer is made in this step
PeerMade == Len(peerUi'.peers) > Len(peerUi.peers)

\* the Peer made last
LastPeer(p) == p.peers[Len(p.peers)]

\* C38: on 'unavailable-id' the peer is made again after the delay at most
\* 3 times per mount, so one mount makes at most 4 peers (attempts 0..3);
\* every retry finds all earlier peers destroyed, and a peer is only made
\* by the mounted run of the effect
C38_RetryBounded ==
    [][PeerMade =>
         /\ peerUi'.mounted
         /\ LastPeer(peerUi').gen = peerUi'.gen
         /\ LastPeer(peerUi').attempt <= 3
         /\ \A k \in 1 .. Len(peerUi.peers) :
                peerUi.peers[k].gen = LastPeer(peerUi').gen
                    => peerUi.peers[k].attempt < LastPeer(peerUi').attempt
         /\ LastPeer(peerUi').attempt > 0
                => /\ peerUi.retry = LastPeer(peerUi').attempt
                   /\ \A k \in 1 .. Len(peerUi.peers) :
                          peerUi'.peers[k].status = "destroyed"]_vars

C38_Witness ==
    /\ Len(peerUi.peers) = 4
    /\ \A k \in 1 .. 4 : peerUi.peers[k].gen = 1 /\ peerUi.peers[k].attempt = k - 1
    /\ \A k \in 1 .. 3 : peerUi.peers[k].status = "destroyed"
    /\ peerUi.peers[4].status = "failed"
    /\ peerUi.retry = 0

----------------------------------------------------------------------------
(* Call machine: the call state of useCall.  The hook's asynchronous        *)
(* functions are cut at their awaits, one at a time (op); the effect on     *)
(* callState that arms and clears the timeouts runs with the step that      *)
(* changes callState.                                                       *)

CallOps == {"decline", "end", "cancel"}

\* connection.close()
CloseConn(conns, i) ==
    IF i = 0 THEN conns ELSE [conns EXCEPT ![i].closed = TRUE]

\* stream.getTracks().forEach(t => t.stop())
StopStream(streams, i) ==
    IF i = 0 THEN streams ELSE [streams EXCEPT ![i] = "stopped"]

\* setCallState(next) with the "Timeouts" effect that follows the render:
\* nothing when the state is unchanged; otherwise the cleanup clears the
\* timer, then OUTGOING and INCOMING arm one, any other state clears the ref
SetCallState(c, next) ==
    IF c.callState = next
    THEN c
    ELSE [c EXCEPT !.callState = next,
                   !.timer = CASE next = "OUTGOING" -> "outgoing"
                               [] next = "INCOMING" -> "incoming"
                               [] OTHER -> "none",
                   !.timeoutRef = next \in {"OUTGOING", "INCOMING"}]

\* performCleanup
PerformCleanup(c) ==
    SetCallState([c EXCEPT !.timer = "none", !.timeoutRef = FALSE,
                           !.conns = CloseConn(CloseConn(@, c.activeCallRef),
                                               c.incomingCallRef),
                           !.activeCallRef = 0, !.incomingCallRef = 0,
                           !.streams = StopStream(@, c.localStreamRef),
                           !.localStreamRef = 0, !.callLogIdRef = 0,
                           !.currentCallLogId = 0, !.callStateRef = "IDLE"],
                 "IDLE")

\* a peer of the mounted run of the effect is open
OpenPeers ==
    {i \in 1 .. Len(peerUi.peers) :
        peerUi.peers[i].status = "open" /\ ClosureMounted(peerUi, i)}

\* newPeer.on('call'): the connection goes to incomingCallRef, the state to
\* INCOMING, the log id of the metadata (0: none) to callLogIdRef
IncomingCall(logId) ==
    /\ OpenPeers # {}
    /\ Len(callUi.conns) < MaxConns
    /\ LET made == Append(callUi.conns, [dir |-> "incoming", closed |-> FALSE])
       IN  callUi' = SetCallState(
                [callUi EXCEPT !.conns = made, !.incomingCallRef = Len(made),
                               !.callStateRef = "INCOMING",
                               !.callLogIdRef = IF logId # 0 THEN logId ELSE @,
                               !.currentCallLogId = IF logId # 0 THEN logId ELSE @],
                "INCOMING")
    /\ UNCHANGED <<chatVars, ratchetVars, vaultVars, view, unlockUi, peerUi>>

\* startCall up to the await of the call_logs insert
StartCall ==
    /\ peerUi.peer # 0 /\ peerUi.peerReady
    /\ callUi.op = "idle"
    /\ callUi.starts < MaxStarts
    /\ callUi' = SetCallState([callUi EXCEPT !.callStateRef = "OUTGOING",
                                             !.op = "insert", !.starts = @ + 1],
                              "OUTGOING")
    /\ UNCHANGED <<chatVars, ratchetVars, vaultVars, view, unlockUi, peerUi>>

\* startCall from the insert's result to the await of getUserMedia: a row
\* that was inserted gives the log id
StartCallInsert(ok) ==
    /\ callUi.op = "insert"
    /\ callUi' = IF ok
                 THEN [callUi EXCEPT !.callLogIdRef = callUi.starts,
                                     !.currentCallLogId = callUi.starts,
                                     !.op = "media"]
                 ELSE [callUi EXCEPT !.op = "media"]
    /\ UNCHANGED <<chatVars, ratchetVars, vaultVars, view, unlockUi, peerUi>>

\* startCall from getUserMedia on: with a stream the call is placed and
\* kept in activeCallRef; without one the catch sets callState to IDLE
StartCallMedia(ok) ==
    /\ callUi.op = "media"
    /\ callUi' =
         IF ok /\ Len(callUi.conns) < MaxConns
         THEN LET streams == Append(callUi.streams, "live")
                  made == Append(callUi.conns, [dir |-> "outgoing", closed |-> FALSE])
              IN  [callUi EXCEPT !.streams = streams, !.localStreamRef = Len(streams),
                                 !.conns = made, !.activeCallRef = Len(made),
                                 !.op = "idle"]
         ELSE SetCallState([callUi EXCEPT !.op = "idle"], "IDLE")
    /\ UNCHANGED <<chatVars, ratchetVars, vaultVars, view, unlockUi, peerUi>>

\* call.on('stream') of a placed call: the peer answered
CallStream(i) ==
    /\ i \in 1 .. Len(callUi.conns)
    /\ callUi.conns[i].dir = "outgoing" /\ ~callUi.conns[i].closed
    /\ callUi' = SetCallState([callUi EXCEPT !.callStateRef = "CONNECTED"],
                              "CONNECTED")
    /\ UNCHANGED <<chatVars, ratchetVars, vaultVars, view, unlockUi, peerUi>>

\* call.on('close'): the other side closed connection i
CallClosed(i) ==
    /\ i \in 1 .. Len(callUi.conns)
    /\ ~callUi.conns[i].closed
    /\ callUi' = PerformCleanup([callUi EXCEPT !.conns = CloseConn(@, i)])
    /\ UNCHANGED <<chatVars, ratchetVars, vaultVars, view, unlockUi, peerUi>>

\* answerCall up to the await of getUserMedia
AnswerCall ==
    /\ callUi.incomingCallRef # 0
    /\ callUi.op = "idle"
    /\ callUi' = [callUi EXCEPT !.op = "answer"]
    /\ UNCHANGED <<chatVars, ratchetVars, vaultVars, view, unlockUi, peerUi>>

\* answerCall from getUserMedia on; `call` is the connection read at the
\* start, and a failure runs performCleanup
AnswerCallMedia(ok) ==
    /\ callUi.op = "answer"
    /\ callUi' =
         IF ok
         THEN LET streams == Append(callUi.streams, "live")
              IN  SetCallState(
                      [callUi EXCEPT !.streams = streams,
                                     !.localStreamRef = Len(streams),
                                     !.callStateRef = "CONNECTED",
                                     !.activeCallRef = callUi.incomingCallRef,
                                     !.incomingCallRef = 0, !.op = "idle"],
                      "CONNECTED")
         ELSE PerformCleanup([callUi EXCEPT !.op = "idle"])
    /\ UNCHANGED <<chatVars, ratchetVars, vaultVars, view, unlockUi, peerUi>>

\* declineCall / endCall / cancelCall up to the await of the call_logs
\* update: the connection of the matching ref is closed
HangUp(kind) ==
    /\ callUi.op = "idle"
    /\ callUi.callState # "IDLE"
    /\ callUi' = [callUi EXCEPT
                    !.conns = CloseConn(@, IF kind = "decline"
                                           THEN callUi.incomingCallRef
                                           ELSE callUi.activeCallRef),
                    !.op = kind]
    /\ UNCHANGED <<chatVars, ratchetVars, vaultVars, view, unlockUi, peerUi>>

\* the same after the update: performCleanup
HangUpFinish ==
    /\ callUi.op \in CallOps
    /\ callUi' = PerformCleanup([callUi EXCEPT !.op = "idle"])
    /\ UNCHANGED <<chatVars, ratchetVars, vaultVars, view, unlockUi, peerUi>>

\* the armed timeout fires: performCleanup (for OUTGOING after the update
\* of the call log)
TimeoutFire ==
    /\ callUi.timer # "none"
    /\ callUi' = PerformCleanup(callUi)
    /\ UNCHANGED <<chatVars, ratchetVars, vaultVars, view, unlockUi, peerUi>>

NextCall ==
    \/ PeerEffect
    \/ \E i \in 1 .. MaxPeers : PeerOpen(i)
    \/ \E logId \in {0, MaxStarts + 1} : IncomingCall(logId)
    \/ StartCall
    \/ \E ok \in BOOLEAN : StartCallInsert(ok)
    \/ \E ok \in BOOLEAN : StartCallMedia(ok)
    \/ \E i \in 1 .. MaxConns : CallStream(i)
    \/ \E i \in 1 .. MaxConns : CallClosed(i)
    \/ AnswerCall
    \/ \E ok \in BOOLEAN : AnswerCallMedia(ok)
    \/ \E kind \in CallOps : HangUp(kind)
    \/ HangUpFinish
    \/ TimeoutFire

SpecCall == Init /\ [][NextCall]_vars

\* a call arrives in this step
IncomingArrives ==
    /\ Len(callUi'.conns) > Len(callUi.conns)
    /\ callUi'.conns[Len(callUi'.conns)].dir = "incoming"

\* the connection of the ongoing call is closed in this step
OngoingClosed ==
    /\ callUi.activeCallRef # 0
    /\ ~callUi.conns[callUi.activeCallRef].closed
    /\ callUi'.conns[callUi.activeCallRef].closed

\* C36: a call that arrives while a call is OUTGOING or CONNECTED leaves
\* callState as it is and does not close the ongoing call, and it arms no
\* incoming-call timeout whose firing would close it
C36_IncomingLeavesOngoingCall ==
    [][(IncomingArrives /\ callUi.callState \in {"OUTGOING", "CONNECTED"})
           => /\ callUi'.callState = callUi.callState
              /\ ~OngoingClosed
              /\ callUi'.timer # "incoming"]_vars

\* C37: with callState IDLE and no call operation in flight no call
\* resource is held: no call-log id, no local stream, no active or
\* incoming connection, no timeout pending
C37_IdleHoldsNothing ==
    (callUi.callState = "IDLE" /\ callUi.op = "idle")
        => /\ callUi.callLogIdRef = 0
           /\ callUi.currentCallLogId = 0
           /\ callUi.localStreamRef = 0
           /\ callUi.activeCallRef = 0
           /\ callUi.incomingCallRef = 0
           /\ callUi.timer = "none"

=============================================================================
